---- MODULE Spec2Model ----
(***************************************************************************)
(* Model of the retail server (Express routes over JSON files) and of the  *)
(* sale commit POST /api/sales in particular.  Every route handler is an   *)
(* async function: it runs to its next await (a file read or write) as one *)
(* step of the single-threaded event loop, and other handlers may run      *)
(* between two of its steps.  Money is counted in cents.                   *)
(***************************************************************************)
EXTENDS Integers, Sequences, FiniteSets, TLC

(* ------------------------------ bounds --------------------------------- *)
NumHandlers == 2      \* POST /api/sales requests, any of them concurrent
MaxCartLen  == 2      \* lines in a request's items array
MaxQty      == 2      \* largest quantity on a line
InitStock   == 2      \* stock of every product in the initial catalog
MaxTime     == 1      \* the clock runs over 0..MaxTime
MaxFaults   == 1      \* file reads/writes that fail in one behaviour
MaxAdminOps == 2      \* admin requests that change data, in one behaviour
MaxSales    == 2      \* commits behind the history a report starts from

Handlers   == 1..NumHandlers
Times      == 0..MaxTime
Quantities == 1..MaxQty

(* --------------------------- initial catalog --------------------------- *)
\* defaultProducts of initializeData, prices in cents
defaultProducts ==
  << [id |-> 1, name |-> "Smartphone", sku |-> "SP001", categoryId |-> 1,
      price |-> 69999, stock |-> 25, reorderPoint |-> 10, lastUpdated |-> 0],
     [id |-> 2, name |-> "Laptop", sku |-> "LP001", categoryId |-> 1,
      price |-> 129999, stock |-> 15, reorderPoint |-> 5, lastUpdated |-> 0],
     [id |-> 3, name |-> "T-Shirt", sku |-> "TS001", categoryId |-> 2,
      price |-> 1999, stock |-> 100, reorderPoint |-> 20, lastUpdated |-> 0] >>

\* defaultCategories of initializeData
defaultCategories ==
  << [id |-> 1, name |-> "Electronics", status |-> "active"],
     [id |-> 2, name |-> "Clothing", status |-> "active"],
     [id |-> 3, name |-> "Books", status |-> "active"] >>

\* Ids a cart line may name: the Laptop, which is in the initial catalog,
\* and the T-Shirt, which is not.  The Smartphone is never sold: it is the
\* product a commit must leave alone.
ProductIds == 2..Len(defaultProducts)

\* The catalog the model starts from: the default one after the T-Shirt was
\* deleted (DELETE /api/products/3) and the stock of the two others was set
\* to InitStock (PUT /api/products/:id).
InitProducts ==
  [i \in 1..2 |-> [defaultProducts[i] EXCEPT !.stock = InitStock]]

(* ------------------------------ requests ------------------------------- *)
CartLines == [productId : ProductIds, quantity : Quantities]
Carts     == UNION {[1..n -> CartLines] : n \in 0..MaxCartLen}
\* discount and tax amounts of a request body, in cents
Charges   == {<<300, 135>>}
SaleBodies == {[items |-> c, discount |-> ch[1], tax |-> ch[2]] :
                 c \in Carts, ch \in Charges}

\* the bodies of the requests that race one another: carts of at most one line
RaceBodies == {b \in SaleBodies : Len(b.items) <= 1}

NoBody == [items |-> <<>>, discount |-> 0, tax |-> 0]
NoSale == [id |-> 0, items |-> <<>>, subtotal |-> 0, discount |-> 0,
           tax |-> 0, total |-> 0, createdAt |-> 0]
NoError == [kind |-> "", productId |-> 0, productName |-> ""]

VARIABLES
  productsFile,   \* contents of data/products.json
  salesFile,      \* contents of data/sales.json
  handler,        \* per request: position and locals of its handler
  responses,      \* responses sent so far, in the order they were sent
  now,            \* the clock new Date() reads
  faults,         \* file operations that have failed so far
  admin,          \* position and locals of the product PUT/DELETE handler
  adminOps,       \* admin requests that change data, received so far
  categoriesFile, \* contents of data/categories.json
  billing,        \* the billing page: product list, cart, submitted form
  report,         \* position, locals and answer of GET /api/analytics/sales
  remover,        \* position, locals and answer of DELETE /api/categories/:id
  creator         \* position, locals and answer of POST /api/products

vars == <<productsFile, salesFile, handler, responses, now, faults,
          admin, adminOps, categoriesFile, billing, report, remover, creator>>

IdleAdmin == [pc |-> "idle", products |-> <<>>]

\* bodies of PUT /api/products/:id: a renamed, repriced, recategorised
\* product under a new sku, and one that takes the Smartphone's sku
PutBodies ==
  { [name |-> "Laptop Pro", sku |-> "LP002", categoryId |-> 2,
     price |-> 99999, stock |-> InitStock, reorderPoint |-> 5],
    [name |-> "Laptop", sku |-> "SP001", categoryId |-> 1,
     price |-> 129999, stock |-> 0, reorderPoint |-> 5] }

\* ids a PUT or DELETE /api/products/:id may name
TargetIds == 1..Len(defaultProducts)

\* the billing page before the product list is loaded
IdleBilling == [pc |-> "editing", productsData |-> <<>>, cart |-> <<>>,
                discountPercent |-> 0, taxPercent |-> 0]

\* a date bound that the query string does not give
NoDate   == -1
NoQuery  == [startDate |-> NoDate, endDate |-> NoDate]
\* the body of the report over no sale; salesByCategory is a mapping from
\* category names and <<>> is the mapping with no key
NoResult == [totalSales |-> 0, totalTransactions |-> 0,
             salesByCategory |-> <<>>, topProducts |-> <<>>]
\* status and result are those of the last answer; status 0: none yet
IdleReport == [pc |-> "idle", query |-> NoQuery, sales |-> <<>>,
               products |-> <<>>, categories |-> <<>>, status |-> 0,
               result |-> NoResult]

\* status is that of the last answer; 0: none yet
IdleRemover == [pc |-> "idle", categoryId |-> 0, categories |-> <<>>,
                status |-> 0]

\* bodies of POST /api/products: the T-Shirt again, a product under the
\* Laptop's sku, and a product of a category that does not exist
PostBodies ==
  { [name |-> "T-Shirt", sku |-> "TS001", categoryId |-> 2,
     price |-> 1999, stock |-> InitStock, reorderPoint |-> 20],
    [name |-> "Laptop Bag", sku |-> "LP001", categoryId |-> 1,
     price |-> 4999, stock |-> InitStock, reorderPoint |-> 5],
    [name |-> "Gadget", sku |-> "GD001", categoryId |-> 9,
     price |-> 999, stock |-> 0, reorderPoint |-> 0] }

\* bodies of POST /api/products after a product was deleted: a book, and
\* the T-Shirt again
ReuseBodies ==
  { [name |-> "Novel", sku |-> "BK001", categoryId |-> 3,
     price |-> 1499, stock |-> InitStock, reorderPoint |-> 0],
    [name |-> "T-Shirt", sku |-> "TS001", categoryId |-> 2,
     price |-> 1999, stock |-> InitStock, reorderPoint |-> 20] }

NoProductBody == [name |-> "", sku |-> "", categoryId |-> 0, price |-> 0,
                  stock |-> 0, reorderPoint |-> 0]

\* the POST /api/products handler at rest: body and products are those of
\* the last request, status that of the last answer (0: none yet)
IdleCreator == [pc |-> "idle", body |-> NoProductBody, products |-> <<>>,
                status |-> 0]

IdleHandler == [pc |-> "idle", body |-> NoBody, products |-> <<>>,
                sales |-> <<>>, newSale |-> NoSale]

(* ------------------------------ helpers -------------------------------- *)
Max(S, d) == IF S = {} THEN d ELSE CHOOSE m \in S : \A x \in S : x <= m

\* sum of the line totals of a sale, from line i on
RECURSIVE SumTotals(_, _)
SumTotals(items, i) ==
  IF i > Len(items) THEN 0 ELSE items[i].total + SumTotals(items, i + 1)

\* products.findIndex(p => p.id === id), 1-based; 0 when there is none
FindProductIndex(products, id) ==
  IF \E i \in 1..Len(products) : products[i].id = id
  THEN CHOOSE i \in 1..Len(products) :
         /\ products[i].id = id
         /\ \A j \in 1..(i - 1) : products[j].id # id
  ELSE 0

\* Math.max(...sales.map(s => s.id), 0) + 1
NextSaleId(sales) == Max({sales[i].id : i \in 1..Len(sales)} \cup {0}, 0) + 1

\* the express-validator chain of POST /api/sales
ValidSaleBody(b) ==
  /\ \A i \in 1..Len(b.items) : b.items[i].quantity >= 1
  /\ b.discount >= 0
  /\ b.tax >= 0

\* ValidateItems with the subtotal accumulating the unit price of each line
\* instead of the line's total.
RECURSIVE ValidateItems_UnitPrice(_, _, _, _, _)
ValidateItems_UnitPrice(products, items, i, subtotal, saleItems) ==
  IF i > Len(items)
  THEN [error |-> NoError, subtotal |-> subtotal, saleItems |-> saleItems]
  ELSE LET item == items[i]
           idx  == FindProductIndex(products, item.productId)
       IN IF idx = 0
          THEN [error |-> [kind |-> "ProductNotFound",
                           productId |-> item.productId, productName |-> ""],
                subtotal |-> subtotal, saleItems |-> saleItems]
          ELSE LET product == products[idx] IN
               IF product.stock < item.quantity
               THEN [error |-> [kind |-> "InsufficientStock", productId |-> 0,
                                productName |-> product.name],
                     subtotal |-> subtotal, saleItems |-> saleItems]
               ELSE LET itemTotal == product.price * item.quantity IN
                    ValidateItems_UnitPrice(products, items, i + 1,
                      subtotal + product.price,
                      Append(saleItems,
                        [productId |-> product.id, productName |-> product.name,
                         sku |-> product.sku, price |-> product.price,
                         quantity |-> item.quantity, total |-> itemTotal]))

\* The validation loop of POST /api/sales from line i on: the first line
\* whose product is missing or short of stock ends it with an error,
\* otherwise every line is priced from the products just read.
RECURSIVE ValidateItems(_, _, _, _, _)
ValidateItems(products, items, i, subtotal, saleItems) ==
  IF i > Len(items)
  THEN [error |-> NoError, subtotal |-> subtotal, saleItems |-> saleItems]
  ELSE LET item == items[i]
           idx  == FindProductIndex(products, item.productId)
       IN IF idx = 0
          THEN [error |-> [kind |-> "ProductNotFound",
                           productId |-> item.productId, productName |-> ""],
                subtotal |-> subtotal, saleItems |-> saleItems]
          ELSE LET product == products[idx] IN
               IF product.stock < item.quantity
               THEN [error |-> [kind |-> "InsufficientStock", productId |-> 0,
                                productName |-> product.name],
                     subtotal |-> subtotal, saleItems |-> saleItems]
               ELSE LET itemTotal == product.price * item.quantity IN
                    ValidateItems(products, items, i + 1, subtotal + itemTotal,
                      Append(saleItems,
                        [productId |-> product.id, productName |-> product.name,
                         sku |-> product.sku, price |-> product.price,
                         quantity |-> item.quantity, total |-> itemTotal]))

\* the newSale object literal
BuildSale(sales, v, body, t) ==
  [id |-> NextSaleId(sales), items |-> v.saleItems, subtotal |-> v.subtotal,
   discount |-> body.discount, tax |-> body.tax,
   total |-> v.subtotal - body.discount + body.tax,
   createdAt |-> t]

\* UpdateStock with lastUpdated set on every product, sold or not.
RECURSIVE UpdateStock_Stamp(_, _, _, _)
UpdateStock_Stamp(products, items, i, t) ==
  IF i > Len(items)
  THEN [k \in DOMAIN products |-> [products[k] EXCEPT !.lastUpdated = t]]
  ELSE LET idx == FindProductIndex(products, items[i].productId) IN
       UpdateStock_Stamp([products EXCEPT ![idx].stock = @ - items[i].quantity,
                                          ![idx].lastUpdated = t],
                         items, i + 1, t)

\* The "Update product stock" loop from line i on, on the in-memory products.
RECURSIVE UpdateStock(_, _, _, _)
UpdateStock(products, items, i, t) ==
  IF i > Len(items) THEN products
  ELSE LET idx == FindProductIndex(products, items[i].productId) IN
       UpdateStock([products EXCEPT ![idx].stock = @ - items[i].quantity,
                                    ![idx].lastUpdated = t],
                   items, i + 1, t)

Answered(h) == \E r \in 1..Len(responses) : responses[r].handler = h

Respond(h, status, error, sale) ==
  responses' = Append(responses, [handler |-> h, body |-> handler[h].body,
                 status |-> status, error |-> error, sale |-> sale])

ServerError == [kind |-> "ServerError", productId |-> 0, productName |-> ""]

(* ---------------------------- POST /api/sales -------------------------- *)
\* StartSale with the handler taking the product list the billing page
\* holds instead of reading products.json.
StartSale_PageSnapshot(h, bodies) ==
  /\ handler[h].pc = "idle"
  /\ ~Answered(h)
  /\ \A g \in 1..(h - 1) : handler[g].pc # "idle" \/ Answered(g)
  /\ \E b \in bodies, ok \in BOOLEAN :
       /\ ValidSaleBody(b)
       /\ ~ok => faults < MaxFaults
       /\ faults' = IF ok THEN faults ELSE faults + 1
       /\ handler' = [handler EXCEPT ![h] = [IdleHandler EXCEPT
                         !.pc = "readSales", !.body = b,
                         !.products = IF ok THEN billing.productsData
                                      ELSE <<>>]]
  /\ UNCHANGED <<creator, productsFile, salesFile, responses, now, admin, adminOps,
               categoriesFile, remover, billing, report>>

\* The request arrives and passes the validators; the handler awaits
\* readDataFile('products.json'), which settles with the file's contents, or
\* with [] when the read or the parse failed; the handler then awaits the
\* read of sales.json.  Requests are numbered in their order of arrival.
StartSale(h, bodies) ==
  /\ handler[h].pc = "idle"
  /\ ~Answered(h)
  /\ \A g \in 1..(h - 1) : handler[g].pc # "idle" \/ Answered(g)
  /\ \E b \in bodies, ok \in BOOLEAN :
       /\ ValidSaleBody(b)
       /\ ~ok => faults < MaxFaults
       /\ faults' = IF ok THEN faults ELSE faults + 1
       /\ handler' = [handler EXCEPT ![h] = [IdleHandler EXCEPT
                         !.pc = "readSales", !.body = b,
                         !.products = IF ok THEN productsFile ELSE <<>>]]
  /\ UNCHANGED <<creator, productsFile, salesFile, responses, now, admin, adminOps,
               categoriesFile, remover, billing, report>>

\* ReadSales with the stock of each line decremented as the line is
\* validated and the products written back when a later line is refused.
ReadSales_EagerDecrement(h) ==
  /\ handler[h].pc = "readSales"
  /\ \E ok \in BOOLEAN, t \in Times :
       /\ ~ok => faults < MaxFaults
       /\ now <= t
       /\ faults' = IF ok THEN faults ELSE faults + 1
       /\ LET sales    == IF ok THEN salesFile ELSE <<>>
              products == handler[h].products
              body     == handler[h].body
              v        == ValidateItems(products, body.items, 1, 0, <<>>)
          IN IF v.error # NoError
             THEN /\ Respond(h, 400, v.error, NoSale)
                  /\ handler' = [handler EXCEPT ![h] = IdleHandler]
                  /\ now' = t
                  /\ productsFile' =
                       UpdateStock(products,
                         SubSeq(body.items, 1, Len(v.saleItems)), 1, t)
             ELSE LET newSale == BuildSale(sales, v, body, t) IN
                  /\ handler' = [handler EXCEPT
                       ![h].pc = "writeProducts",
                       ![h].products = UpdateStock(products, body.items, 1, t),
                       ![h].sales = Append(sales, newSale),
                       ![h].newSale = newSale]
                  /\ now' = t
                  /\ UNCHANGED <<responses, productsFile>>
  /\ UNCHANGED <<creator, salesFile, admin, adminOps,
               categoriesFile, remover, billing, report>>

\* readDataFile('sales.json') settles and the handler runs without a break
\* up to its next await: it validates and prices the cart, answers 400 on
\* the first bad line, or else builds the sale, decrements the stock of the
\* products it read, pushes the sale and starts writing products.json.
ReadSales(h) ==
  /\ handler[h].pc = "readSales"
  /\ \E ok \in BOOLEAN, t \in Times :
       /\ ~ok => faults < MaxFaults
       /\ now <= t
       /\ faults' = IF ok THEN faults ELSE faults + 1
       /\ LET sales    == IF ok THEN salesFile ELSE <<>>
              products == handler[h].products
              body     == handler[h].body
              v        == ValidateItems(products, body.items, 1, 0, <<>>)
          IN IF v.error # NoError
             THEN /\ Respond(h, 400, v.error, NoSale)
                  /\ handler' = [handler EXCEPT ![h] = IdleHandler]
                  /\ now' = now
             ELSE LET newSale == BuildSale(sales, v, body, t) IN
                  /\ handler' = [handler EXCEPT
                       ![h].pc = "writeProducts",
                       ![h].products = UpdateStock(products, body.items, 1, t),
                       ![h].sales = Append(sales, newSale),
                       ![h].newSale = newSale]
                  /\ now' = t
                  /\ UNCHANGED responses
  /\ UNCHANGED <<creator, productsFile, salesFile, admin, adminOps,
               categoriesFile, remover, billing, report>>

\* writeDataFile('products.json', products) settles: the file now holds the
\* handler's products, or the write threw and the handler answers 500.
WriteProducts(h) ==
  /\ handler[h].pc = "writeProducts"
  /\ \E ok \in BOOLEAN :
       /\ ~ok => faults < MaxFaults
       /\ faults' = IF ok THEN faults ELSE faults + 1
       /\ IF ok
          THEN /\ productsFile' = handler[h].products
               /\ handler' = [handler EXCEPT ![h].pc = "writeSales"]
               /\ UNCHANGED responses
          ELSE /\ Respond(h, 500, ServerError, NoSale)
               /\ handler' = [handler EXCEPT ![h] = IdleHandler]
               /\ UNCHANGED productsFile
  /\ UNCHANGED <<creator, salesFile, now, admin, adminOps,
               categoriesFile, remover, billing, report>>

\* WriteSales with the new sale appended to what sales.json holds at the
\* time of the write.
WriteSales_Append(h) ==
  /\ handler[h].pc = "writeSales"
  /\ \E ok \in BOOLEAN :
       /\ ~ok => faults < MaxFaults
       /\ faults' = IF ok THEN faults ELSE faults + 1
       /\ IF ok
          THEN /\ salesFile' = Append(salesFile, handler[h].newSale)
               /\ Respond(h, 201, NoError, handler[h].newSale)
          ELSE /\ Respond(h, 500, ServerError, NoSale)
               /\ UNCHANGED salesFile
       /\ handler' = [handler EXCEPT ![h] = IdleHandler]
  /\ UNCHANGED <<creator, productsFile, now, admin, adminOps,
               categoriesFile, remover, billing, report>>

\* writeDataFile('sales.json', sales) settles: the file now holds the
\* handler's sales and the handler answers 201 with the sale, or the write
\* threw and the handler answers 500.
WriteSales(h) ==
  /\ handler[h].pc = "writeSales"
  /\ \E ok \in BOOLEAN :
       /\ ~ok => faults < MaxFaults
       /\ faults' = IF ok THEN faults ELSE faults + 1
       /\ IF ok
          THEN /\ salesFile' = handler[h].sales
               /\ Respond(h, 201, NoError, handler[h].newSale)
          ELSE /\ Respond(h, 500, ServerError, NoSale)
               /\ UNCHANGED salesFile
       /\ handler' = [handler EXCEPT ![h] = IdleHandler]
  /\ UNCHANGED <<creator, productsFile, now, admin, adminOps,
               categoriesFile, remover, billing, report>>

(* ------------------------ PUT /api/products/:id ------------------------ *)
\* the express-validator chain of PUT /api/products/:id
ValidProductBody(b) ==
  /\ b.name # "" /\ b.sku # ""
  /\ b.price >= 0 /\ b.stock >= 0 /\ b.reorderPoint >= 0

\* the products array once the product at index idx has taken the body
UpdatedProducts(products, idx, b, t) ==
  [products EXCEPT ![idx] = [@ EXCEPT
     !.name = b.name, !.sku = b.sku, !.categoryId = b.categoryId,
     !.price = b.price, !.stock = b.stock, !.reorderPoint = b.reorderPoint,
     !.lastUpdated = t]]

\* The request passes the validators and readDataFile('products.json')
\* settles; the handler answers 404 when the id is unknown, 400 when another
\* product has the sku, or else updates the product in the array it read
\* and awaits the write of products.json.
PutProduct(ids, bodies) ==
  /\ admin.pc = "idle"
  /\ adminOps < MaxAdminOps
  /\ adminOps' = adminOps + 1
  /\ \E productId \in ids, b \in bodies, ok \in BOOLEAN, t \in Times :
       /\ ValidProductBody(b)
       /\ ~ok => faults < MaxFaults
       /\ now <= t
       /\ faults' = IF ok THEN faults ELSE faults + 1
       /\ LET products == IF ok THEN productsFile ELSE <<>>
              idx      == FindProductIndex(products, productId)
          IN IF \/ idx = 0
                \/ \E i \in 1..Len(products) :
                     products[i].sku = b.sku /\ products[i].id # productId
             THEN /\ admin' = IdleAdmin
                  /\ now' = now
             ELSE /\ admin' = [pc |-> "putWrite",
                               products |-> UpdatedProducts(products, idx, b, t)]
                  /\ now' = t
  /\ UNCHANGED <<creator, productsFile, salesFile, handler, responses,
               categoriesFile, remover, billing, report>>

\* PutProductWrite with the edit carried over to the line items of the
\* recorded sales that name an edited product.
PutProductWrite_Cascade ==
  /\ admin.pc = "putWrite"
  /\ \E ok \in BOOLEAN :
       /\ ~ok => faults < MaxFaults
       /\ faults' = IF ok THEN faults ELSE faults + 1
       /\ productsFile' = IF ok THEN admin.products ELSE productsFile
       /\ salesFile' =
            IF ~ok THEN salesFile
            ELSE [k \in DOMAIN salesFile |-> [salesFile[k] EXCEPT !.items =
                   [i \in DOMAIN @ |->
                      LET idx == FindProductIndex(admin.products, @[i].productId)
                      IN IF idx = 0 THEN @[i]
                         ELSE [@[i] EXCEPT
                                 !.productName = admin.products[idx].name,
                                 !.sku = admin.products[idx].sku,
                                 !.price = admin.products[idx].price]]]]
  /\ admin' = IdleAdmin
  /\ UNCHANGED <<creator, handler, responses, now, adminOps,
               categoriesFile, remover, billing, report>>

\* writeDataFile('products.json', products) of the PUT settles: the file
\* holds the handler's products, or the write threw (answer 500).
PutProductWrite ==
  /\ admin.pc = "putWrite"
  /\ \E ok \in BOOLEAN :
       /\ ~ok => faults < MaxFaults
       /\ faults' = IF ok THEN faults ELSE faults + 1
       /\ productsFile' = IF ok THEN admin.products ELSE productsFile
  /\ admin' = IdleAdmin
  /\ UNCHANGED <<creator, salesFile, handler, responses, now, adminOps,
               categoriesFile, remover, billing, report>>

(* ----------------------- DELETE /api/products/:id ---------------------- *)
\* products.filter(p => p.id !== productId)
RECURSIVE WithoutProduct(_, _)
WithoutProduct(products, productId) ==
  IF products = <<>> THEN <<>>
  ELSE (IF Head(products).id # productId THEN <<Head(products)>> ELSE <<>>)
       \o WithoutProduct(Tail(products), productId)

\* readDataFile('products.json') settles; the handler answers 404 when no
\* product has the id, or else awaits the write of the filtered products.
DeleteProduct(ids) ==
  /\ admin.pc = "idle"
  /\ adminOps < MaxAdminOps
  /\ adminOps' = adminOps + 1
  /\ \E productId \in ids, ok \in BOOLEAN :
       /\ ~ok => faults < MaxFaults
       /\ faults' = IF ok THEN faults ELSE faults + 1
       /\ LET products == IF ok THEN productsFile ELSE <<>>
              filteredProducts == WithoutProduct(products, productId)
          IN IF Len(filteredProducts) = Len(products)
             THEN admin' = IdleAdmin
             ELSE admin' = [pc |-> "deleteWrite", products |-> filteredProducts]
  /\ UNCHANGED <<creator, productsFile, salesFile, handler, responses, now,
               categoriesFile, remover, billing, report>>

\* writeDataFile('products.json', filteredProducts) settles.
DeleteProductWrite ==
  /\ admin.pc = "deleteWrite"
  /\ \E ok \in BOOLEAN :
       /\ ~ok => faults < MaxFaults
       /\ faults' = IF ok THEN faults ELSE faults + 1
       /\ productsFile' = IF ok THEN admin.products ELSE productsFile
  /\ admin' = IdleAdmin
  /\ UNCHANGED <<creator, salesFile, handler, responses, now, adminOps,
               categoriesFile, remover, billing, report>>

(* --------------------------- POST /api/products ------------------------ *)
\* NextProductId as the number of products plus one
NextProductId_Count(products) == Len(products) + 1

\* Math.max(...products.map(p => p.id), 0) + 1
NextProductId(products) ==
  Max({products[i].id : i \in 1..Len(products)} \cup {0}, 0) + 1

\* products.find(p => p.sku === sku), compared with the first product only
SkuTaken_FirstOnly(products, sku) ==
  products # <<>> /\ products[1].sku = sku

\* products.find(p => p.sku === sku) finds a product
SkuTaken(products, sku) ==
  \E i \in 1..Len(products) : products[i].sku = sku

\* the product the POST pushes
NewProduct(products, b, t) ==
  [id |-> NextProductId(products), name |-> b.name, sku |-> b.sku,
   categoryId |-> b.categoryId, price |-> b.price, stock |-> b.stock,
   reorderPoint |-> b.reorderPoint, lastUpdated |-> t]

\* The request passes the validators and readDataFile('products.json')
\* settles ([] when the read failed); the handler answers 400 when a
\* product it read has the sku, or else pushes the new product and awaits
\* the write of products.json.
CreateProduct(bodies) ==
  /\ creator.pc = "idle"
  /\ adminOps < MaxAdminOps
  /\ adminOps' = adminOps + 1
  /\ \E b \in bodies, ok \in BOOLEAN, t \in Times :
       /\ ValidProductBody(b)
       /\ ~ok => faults < MaxFaults
       /\ now <= t
       /\ faults' = IF ok THEN faults ELSE faults + 1
       /\ LET products == IF ok THEN productsFile ELSE <<>>
          IN IF SkuTaken(products, b.sku)
             THEN /\ creator' = [pc |-> "idle", body |-> b,
                                 products |-> products, status |-> 400]
                  /\ now' = now
             ELSE /\ creator' = [pc |-> "createWrite", body |-> b,
                       products |-> Append(products, NewProduct(products, b, t)),
                       status |-> 0]
                  /\ now' = t
  /\ UNCHANGED <<productsFile, salesFile, handler, responses, admin,
                 categoriesFile, remover, billing, report>>

\* writeDataFile('products.json', products) of the POST settles: the file
\* holds the handler's products and it answers 201, or the write threw and
\* it answers 500.
CreateProductWrite ==
  /\ creator.pc = "createWrite"
  /\ \E ok \in BOOLEAN :
       /\ ~ok => faults < MaxFaults
       /\ faults' = IF ok THEN faults ELSE faults + 1
       /\ productsFile' = IF ok THEN creator.products ELSE productsFile
       /\ creator' = [creator EXCEPT !.pc = "idle",
                        !.status = IF ok THEN 201 ELSE 500]
  /\ UNCHANGED <<salesFile, handler, responses, now, admin, adminOps,
                 categoriesFile, remover, billing, report>>

(* ---------------------- DELETE /api/categories/:id --------------------- *)
\* ids a DELETE /api/categories/:id may name
CategoryIds == 1..Len(defaultCategories)

\* categories.filter(c => c.id !== categoryId)
RECURSIVE WithoutCategory(_, _)
WithoutCategory(categories, categoryId) ==
  IF categories = <<>> THEN <<>>
  ELSE (IF Head(categories).id # categoryId THEN <<Head(categories)>>
        ELSE <<>>)
       \o WithoutCategory(Tail(categories), categoryId)

\* The request arrives and readDataFile('categories.json') settles ([] when
\* the read failed); the handler awaits the read of products.json.
DeleteCategory ==
  /\ remover.pc = "idle"
  /\ \E categoryId \in CategoryIds, ok \in BOOLEAN :
       /\ ~ok => faults < MaxFaults
       /\ faults' = IF ok THEN faults ELSE faults + 1
       /\ remover' = [remover EXCEPT !.pc = "readProducts",
                        !.categoryId = categoryId,
                        !.categories = IF ok THEN categoriesFile ELSE <<>>]
  /\ UNCHANGED <<creator, productsFile, salesFile, handler, responses, now, admin,
                 adminOps, categoriesFile, billing, report>>

\* readDataFile('products.json') settles; the handler answers 400 when a
\* product it read has the category, 404 when no category has the id, or
\* else awaits the write of the filtered categories.
DeleteCategoryReadProducts ==
  /\ remover.pc = "readProducts"
  /\ \E ok \in BOOLEAN :
       /\ ~ok => faults < MaxFaults
       /\ faults' = IF ok THEN faults ELSE faults + 1
       /\ LET products == IF ok THEN productsFile ELSE <<>>
              hasProducts == \E p \in 1..Len(products) :
                               products[p].categoryId = remover.categoryId
              filteredCategories ==
                WithoutCategory(remover.categories, remover.categoryId)
          IN IF hasProducts
             THEN remover' = [IdleRemover EXCEPT !.status = 400]
             ELSE IF Len(filteredCategories) = Len(remover.categories)
             THEN remover' = [IdleRemover EXCEPT !.status = 404]
             ELSE remover' = [remover EXCEPT !.pc = "write",
                                !.categories = filteredCategories]
  /\ UNCHANGED <<creator, productsFile, salesFile, handler, responses, now, admin,
                 adminOps, categoriesFile, billing, report>>

\* writeDataFile('categories.json', filteredCategories) settles: the file
\* holds the filtered categories and the handler answers 200, or the write
\* threw and it answers 500.
DeleteCategoryWrite ==
  /\ remover.pc = "write"
  /\ \E ok \in BOOLEAN :
       /\ ~ok => faults < MaxFaults
       /\ faults' = IF ok THEN faults ELSE faults + 1
       /\ categoriesFile' = IF ok THEN remover.categories ELSE categoriesFile
       /\ remover' = [IdleRemover EXCEPT !.status = IF ok THEN 200 ELSE 500]
  /\ UNCHANGED <<creator, productsFile, salesFile, handler, responses, now, admin,
                 adminOps, billing, report>>

\* categories.find(c => c.id === id), 1-based; 0 when there is none
FindCategoryIndex(categories, id) ==
  IF \E i \in 1..Len(categories) : categories[i].id = id
  THEN CHOOSE i \in 1..Len(categories) :
         /\ categories[i].id = id
         /\ \A j \in 1..(i - 1) : categories[j].id # id
  ELSE 0

(* --------------- POST /api/categories, PUT /api/categories/:id --------- *)
\* names a category request may carry ("" is what notEmpty() rejects)
CategoryNames == {"", "electronics", "Toys", "TOYS"}

\* status of a PUT body ("" when the field is absent)
CategoryStatuses == {"", "inactive"}

\* String.prototype.toLowerCase on the names that occur
toLowerCase(name) ==
  CASE name = "Electronics" -> "electronics"
    [] name = "Clothing" -> "clothing"
    [] name = "Books" -> "books"
    [] name \in {"Toys", "TOYS"} -> "toys"
    [] OTHER -> name

\* Math.max(...categories.map(c => c.id), 0) + 1
NextCategoryId(categories) ==
  Max({categories[i].id : i \in 1..Len(categories)} \cup {0}, 0) + 1

\* The POST passes the validator and readDataFile('categories.json')
\* settles; the handler answers 400 when a category it read has the name
\* ignoring case, or else pushes the new category and awaits the write.
CreateCategory ==
  /\ remover.pc = "idle"
  /\ adminOps < MaxAdminOps
  /\ adminOps' = adminOps + 1
  /\ \E name \in CategoryNames, ok \in BOOLEAN :
       /\ name # ""
       /\ ~ok => faults < MaxFaults
       /\ faults' = IF ok THEN faults ELSE faults + 1
       /\ LET categories == IF ok THEN categoriesFile ELSE <<>>
          IN IF \E i \in 1..Len(categories) :
                  toLowerCase(categories[i].name) = toLowerCase(name)
             THEN remover' = [IdleRemover EXCEPT !.status = 400]
             ELSE remover' = [remover EXCEPT !.pc = "createWrite",
                    !.categoryId = NextCategoryId(categories),
                    !.categories = Append(categories,
                       [id |-> NextCategoryId(categories), name |-> name,
                        status |-> "active"])]
  /\ UNCHANGED <<creator, productsFile, salesFile, handler, responses, now,
                 admin, categoriesFile, billing, report>>

\* writeDataFile('categories.json', categories) of the POST settles: the
\* handler answers 201, or 500 when the write threw.
CreateCategoryWrite ==
  /\ remover.pc = "createWrite"
  /\ \E ok \in BOOLEAN :
       /\ ~ok => faults < MaxFaults
       /\ faults' = IF ok THEN faults ELSE faults + 1
       /\ categoriesFile' = IF ok THEN remover.categories ELSE categoriesFile
       /\ remover' = [IdleRemover EXCEPT !.status = IF ok THEN 201 ELSE 500]
  /\ UNCHANGED <<creator, productsFile, salesFile, handler, responses, now,
                 admin, adminOps, billing, report>>

\* The PUT passes the validator and readDataFile('categories.json')
\* settles; the handler answers 404 when no category has the id, or else
\* replaces the name (and the status, when the body has one) of the
\* category in the array it read and awaits the write.
UpdateCategory ==
  /\ remover.pc = "idle"
  /\ adminOps < MaxAdminOps
  /\ adminOps' = adminOps + 1
  /\ \E categoryId \in CategoryIds, name \in CategoryNames,
        status \in CategoryStatuses, ok \in BOOLEAN :
       /\ name # ""
       /\ ~ok => faults < MaxFaults
       /\ faults' = IF ok THEN faults ELSE faults + 1
       /\ LET categories    == IF ok THEN categoriesFile ELSE <<>>
              categoryIndex == FindCategoryIndex(categories, categoryId)
          IN IF categoryIndex = 0
             THEN remover' = [IdleRemover EXCEPT !.status = 404]
             ELSE remover' = [remover EXCEPT !.pc = "putWrite",
                    !.categoryId = categoryId,
                    !.categories = [categories EXCEPT ![categoryIndex] =
                       [@ EXCEPT !.name = name,
                                 !.status = IF status # "" THEN status
                                            ELSE @]]]
  /\ UNCHANGED <<creator, productsFile, salesFile, handler, responses, now,
                 admin, categoriesFile, billing, report>>

\* writeDataFile('categories.json', categories) of the PUT settles: the
\* handler answers 200, or 500 when the write threw.
UpdateCategoryWrite ==
  /\ remover.pc = "putWrite"
  /\ \E ok \in BOOLEAN :
       /\ ~ok => faults < MaxFaults
       /\ faults' = IF ok THEN faults ELSE faults + 1
       /\ categoriesFile' = IF ok THEN remover.categories ELSE categoriesFile
       /\ remover' = [IdleRemover EXCEPT !.status = IF ok THEN 200 ELSE 500]
  /\ UNCHANGED <<creator, productsFile, salesFile, handler, responses, now,
                 admin, adminOps, billing, report>>

(* ----------------------- GET /api/analytics/sales ---------------------- *)
\* slice(0, 10) of the top selling products
TopN == 10

\* query strings with exactly one of the two bounds
OneSidedQueries ==
  {[startDate |-> d, endDate |-> NoDate] : d \in Times}
    \cup {[startDate |-> NoDate, endDate |-> d] : d \in Times}

\* query strings: no bound, or both bounds
Queries == {NoQuery} \cup [startDate : Times, endDate : Times]

\* FilterSales with the upper bound exclusive
FilterSales_Exclusive(sales, query) ==
  IF query.startDate # NoDate /\ query.endDate # NoDate
  THEN SelectSeq(sales, LAMBDA sale :
         sale.createdAt >= query.startDate /\ sale.createdAt < query.endDate)
  ELSE sales

\* filteredSales: the sales between the two bounds when both are given,
\* every sale otherwise
FilterSales(sales, query) ==
  IF query.startDate # NoDate /\ query.endDate # NoDate
  THEN SelectSeq(sales, LAMBDA sale :
         sale.createdAt >= query.startDate /\ sale.createdAt <= query.endDate)
  ELSE sales

\* filteredSales.reduce((sum, sale) => sum + sale.total, 0), from sale k on
RECURSIVE SumSaleTotals(_, _)
SumSaleTotals(sales, k) ==
  IF k > Len(sales) THEN 0 ELSE sales[k].total + SumSaleTotals(sales, k + 1)

\* the line items the two forEach loops visit, in order, from sale k on
RECURSIVE AllItems(_, _)
AllItems(sales, k) ==
  IF k > Len(sales) THEN <<>> ELSE sales[k].items \o AllItems(sales, k + 1)

\* AddTo with the amount replacing what the key had
AddTo_Overwrite(acc, key, amount) ==
  IF key \in DOMAIN acc THEN [acc EXCEPT ![key] = amount]
  ELSE acc @@ (key :> amount)

\* acc[key] = (acc[key] || 0) + amount
AddTo(acc, key, amount) ==
  IF key \in DOMAIN acc THEN [acc EXCEPT ![key] = @ + amount]
  ELSE acc @@ (key :> amount)

\* SalesByCategory with the items of a missing product or category put
\* under the key "Uncategorized"
RECURSIVE SalesByCategory_Uncategorized(_, _, _, _, _)
SalesByCategory_Uncategorized(items, i, products, categories, acc) ==
  IF i > Len(items) THEN acc
  ELSE LET item == items[i]
           p    == FindProductIndex(products, item.productId)
           c    == IF p = 0 THEN 0
                   ELSE FindCategoryIndex(categories, products[p].categoryId)
       IN SalesByCategory_Uncategorized(items, i + 1, products, categories,
            IF c = 0 THEN AddTo(acc, "Uncategorized", item.total)
            ELSE AddTo(acc, categories[c].name, item.total))

\* The "Sales by category" loops from item i on: the item's total goes to
\* the name of the category of the product that has the item's productId
\* now; an item whose product or category is not found is passed over.
RECURSIVE SalesByCategory(_, _, _, _, _)
SalesByCategory(items, i, products, categories, acc) ==
  IF i > Len(items) THEN acc
  ELSE LET item == items[i]
           p    == FindProductIndex(products, item.productId)
           c    == IF p = 0 THEN 0
                   ELSE FindCategoryIndex(categories, products[p].categoryId)
       IN SalesByCategory(items, i + 1, products, categories,
            IF c = 0 THEN acc
            ELSE AddTo(acc, categories[c].name, item.total))

\* The "Top selling products" loops from item i on: quantity and total
\* accumulate under the item's productId, with the name of the first item
\* seen.
RECURSIVE ProductSales(_, _, _)
ProductSales(items, i, acc) ==
  IF i > Len(items) THEN acc
  ELSE LET item == items[i] IN
       ProductSales(items, i + 1,
         IF item.productId \in DOMAIN acc
         THEN [acc EXCEPT ![item.productId].quantity = @ + item.quantity,
                          ![item.productId].total = @ + item.total]
         ELSE acc @@ (item.productId :>
                [productName |-> item.productName,
                 quantity |-> item.quantity, total |-> item.total]))

\* Object.entries(productSales): the keys are product ids, and an object
\* lists its integer keys in ascending order whatever the order in which
\* they were set
RECURSIVE ObjectKeys(_)
ObjectKeys(ids) ==
  IF ids = {} THEN <<>>
  ELSE LET least == CHOOSE x \in ids : \A y \in ids : x <= y
       IN <<least>> \o ObjectKeys(ids \ {least})

\* one step of the stable sort with (a, b) => b.quantity - a.quantity: the
\* entry goes behind every entry placed before it that the comparator does
\* not put after it, i.e. behind those of its quantity or more
InsertByQuantity(sorted, x, productSales) ==
  LET n == Cardinality({k \in 1..Len(sorted) :
                 productSales[sorted[k]].quantity >= productSales[x].quantity})
  IN SubSeq(sorted, 1, n) \o <<x>> \o SubSeq(sorted, n + 1, Len(sorted))

\* the stable sort of the entries from the k-th on
RECURSIVE StableSort(_, _, _, _)
StableSort(entries, productSales, k, sorted) ==
  IF k > Len(entries) THEN sorted
  ELSE StableSort(entries, productSales, k + 1,
                  InsertByQuantity(sorted, entries[k], productSales))

\* SortByQuantity over the entries in descending key order
SortByQuantity_KeysDescending(ids, productSales) ==
  LET keys == ObjectKeys(ids)
  IN StableSort([k \in 1..Len(keys) |-> keys[Len(keys) + 1 - k]],
                productSales, 1, <<>>)

\* Object.entries(productSales).sort((a, b) => b.quantity - a.quantity)
SortByQuantity(ids, productSales) ==
  StableSort(ObjectKeys(ids), productSales, 1, <<>>)

\* TopProducts without the slice
TopProducts_All(productSales) ==
  LET sorted == SortByQuantity(DOMAIN productSales, productSales)
  IN [k \in 1..Len(sorted) |->
        [productId |-> sorted[k],
         productName |-> productSales[sorted[k]].productName,
         quantity |-> productSales[sorted[k]].quantity,
         total |-> productSales[sorted[k]].total]]

\* topProducts: the first TopN sorted entries
TopProducts(productSales) ==
  LET sorted == SortByQuantity(DOMAIN productSales, productSales)
      n      == IF Len(sorted) < TopN THEN Len(sorted) ELSE TopN
  IN [k \in 1..n |->
        [productId |-> sorted[k],
         productName |-> productSales[sorted[k]].productName,
         quantity |-> productSales[sorted[k]].quantity,
         total |-> productSales[sorted[k]].total]]

\* Aggregate with a bound applied also when it is the only one supplied
Aggregate_Bounded(sales, products, categories, query) ==
  LET filteredSales == SelectSeq(sales, LAMBDA sale :
        /\ query.startDate # NoDate => sale.createdAt >= query.startDate
        /\ query.endDate # NoDate => sale.createdAt <= query.endDate)
      items         == AllItems(filteredSales, 1)
  IN [totalSales |-> SumSaleTotals(filteredSales, 1),
      totalTransactions |-> Len(filteredSales),
      salesByCategory |-> SalesByCategory(items, 1, products, categories, <<>>),
      topProducts |-> TopProducts(ProductSales(items, 1, <<>>))]

\* the body of the answer, from what the handler read
Aggregate(sales, products, categories, query) ==
  LET filteredSales == FilterSales(sales, query)
      items         == AllItems(filteredSales, 1)
  IN [totalSales |-> SumSaleTotals(filteredSales, 1),
      totalTransactions |-> Len(filteredSales),
      salesByCategory |-> SalesByCategory(items, 1, products, categories, <<>>),
      topProducts |-> TopProducts(ProductSales(items, 1, <<>>))]

\* The request arrives with its query string and readDataFile('sales.json')
\* settles ([] when the read failed); the handler awaits the read of
\* products.json.  The status and the result of the answer before stay on
\* record until this request is answered.
StartReport(queries) ==
  /\ report.pc = "idle"
  /\ \E q \in queries, ok \in BOOLEAN :
       /\ ~ok => faults < MaxFaults
       /\ faults' = IF ok THEN faults ELSE faults + 1
       /\ report' = [report EXCEPT !.pc = "readProducts", !.query = q,
                       !.sales = IF ok THEN salesFile ELSE <<>>,
                       !.products = <<>>, !.categories = <<>>]
  /\ UNCHANGED <<creator, productsFile, salesFile, handler, responses, now, admin,
                 adminOps, categoriesFile, remover, billing>>

\* readDataFile('products.json') settles; the handler awaits the read of
\* categories.json.
ReportReadProducts ==
  /\ report.pc = "readProducts"
  /\ \E ok \in BOOLEAN :
       /\ ~ok => faults < MaxFaults
       /\ faults' = IF ok THEN faults ELSE faults + 1
       /\ report' = [report EXCEPT !.pc = "readCategories",
                       !.products = IF ok THEN productsFile ELSE <<>>]
  /\ UNCHANGED <<creator, productsFile, salesFile, handler, responses, now, admin,
                 adminOps, categoriesFile, remover, billing>>

\* ReportReadCategories with the filtered sales written back to sales.json
ReportReadCategories_Prune ==
  /\ report.pc = "readCategories"
  /\ \E ok \in BOOLEAN :
       /\ ~ok => faults < MaxFaults
       /\ faults' = IF ok THEN faults ELSE faults + 1
       /\ LET categories == IF ok THEN categoriesFile ELSE <<>> IN
          report' = [report EXCEPT !.pc = "idle", !.status = 200,
                       !.categories = categories,
                       !.result = Aggregate(report.sales, report.products,
                                            categories, report.query)]
  /\ salesFile' = FilterSales(report.sales, report.query)
  /\ UNCHANGED <<creator, productsFile, handler, responses, now, admin,
                 adminOps, categoriesFile, remover, billing>>

\* readDataFile('categories.json') settles and the handler runs to its end:
\* it filters the sales, computes the four figures and answers 200.
ReportReadCategories ==
  /\ report.pc = "readCategories"
  /\ \E ok \in BOOLEAN :
       /\ ~ok => faults < MaxFaults
       /\ faults' = IF ok THEN faults ELSE faults + 1
       /\ LET categories == IF ok THEN categoriesFile ELSE <<>> IN
          report' = [report EXCEPT !.pc = "idle", !.status = 200,
                       !.categories = categories,
                       !.result = Aggregate(report.sales, report.products,
                                            categories, report.query)]
  /\ UNCHANGED <<creator, productsFile, salesFile, handler, responses, now, admin,
                 adminOps, categoriesFile, remover, billing>>

(* ------------------------- the billing page --------------------------- *)
\* values typed into the discountPercent and taxPercent fields
DiscountPercents == {0, 10}
TaxPercents      == {0, 5}

\* The catalog of the billing scenarios: the initial one after the prices
\* were set to 20.00 and 10.00 (PUT /api/products/:id), so that the
\* percentages above divide every amount exactly.
BillingProducts ==
  [i \in 1..Len(InitProducts) |->
     [InitProducts[i] EXCEPT !.price = 1000 * (Len(InitProducts) + 1 - i)]]

\* bodies of the edits made while the cart is open: the Laptop at twice the
\* price with one unit less in stock, and the Laptop as it was
BillingPutBodies ==
  { [name |-> "Laptop", sku |-> "LP001", categoryId |-> 1,
     price |-> 2000, stock |-> InitStock - 1, reorderPoint |-> 5],
    [name |-> "Laptop", sku |-> "LP001", categoryId |-> 1,
     price |-> 1000, stock |-> InitStock, reorderPoint |-> 5] }

\* what the cashier typed into the search box
searchTerm == "Laptop"

\* filteredProducts: the products whose name or sku includes the search
\* term; of the names and skus of these catalogs only the name "Laptop"
\* does
RECURSIVE filteredProducts(_)
filteredProducts(productsData) ==
  IF productsData = <<>> THEN <<>>
  ELSE (IF Head(productsData).name = searchTerm
        THEN <<Head(productsData)>> ELSE <<>>)
       \o filteredProducts(Tail(productsData))

\* cart.find(item => item.productId === id), 1-based; 0 when there is none
FindCartIndex(cart, id) ==
  IF \E i \in 1..Len(cart) : cart[i].productId = id
  THEN CHOOSE i \in 1..Len(cart) : cart[i].productId = id
  ELSE 0

\* cart.reduce((sum, item) => sum + item.total, 0)
CartSubtotal(cart) == SumTotals(cart, 1)

\* the saleData object of onSubmit: the amounts are those the page shows,
\* computed from the prices the cart lines captured
SaleData(b) ==
  LET subtotal       == CartSubtotal(b.cart)
      discountAmount == (subtotal * b.discountPercent) \div 100
      taxableAmount  == subtotal - discountAmount
      taxAmount      == (taxableAmount * b.taxPercent) \div 100
  IN [items |-> [i \in 1..Len(b.cart) |->
                   [productId |-> b.cart[i].productId,
                    quantity |-> b.cart[i].quantity]],
      discount |-> discountAmount, tax |-> taxAmount]

\* useQuery('products') fetches GET /api/products: the page holds what
\* readDataFile('products.json') gave the route, [] when the read failed.
\* The page is followed up to the answer to its sale.
LoadProducts ==
  /\ billing.pc = "editing"
  /\ ~Answered(1)
  /\ \E ok \in BOOLEAN :
       /\ ~ok => faults < MaxFaults
       /\ faults' = IF ok THEN faults ELSE faults + 1
       /\ billing' = [billing EXCEPT
                        !.productsData = IF ok THEN productsFile ELSE <<>>]
  /\ UNCHANGED <<creator, productsFile, salesFile, handler, responses, now, admin,
                 adminOps, categoriesFile, remover, report>>

\* A click on one of the products shown: one more unit of a line that is
\* below the listed stock, or a new line of one unit of a product in stock.
AddToCartOf(shown) ==
  /\ billing.pc = "editing"
  /\ ~Answered(1)
  /\ \E p \in 1..Len(shown) :
       LET product == shown[p]
           k       == FindCartIndex(billing.cart, product.id)
       IN IF k # 0
          THEN /\ billing.cart[k].quantity < product.stock
               /\ billing' = [billing EXCEPT
                    !.cart[k].quantity = @ + 1,
                    !.cart[k].total = (billing.cart[k].quantity + 1)
                                        * billing.cart[k].price]
          ELSE /\ product.stock > 0
               /\ billing' = [billing EXCEPT !.cart = Append(@,
                    [productId |-> product.id, productName |-> product.name,
                     sku |-> product.sku, price |-> product.price,
                     quantity |-> 1, total |-> product.price])]
  /\ UNCHANGED <<creator, productsFile, salesFile, handler, responses, now, faults,
                 admin, adminOps, categoriesFile, remover, report>>

\* a click on a product of the list as the search term filters it
AddToCart == AddToCartOf(filteredProducts(billing.productsData))

\* values typed into the quantity field of a cart line
QuantityInputs == (0 - 1)..(MaxQty + 1)

\* parseInt(e.target.value) || 1
ParsedQuantity(value) == IF value = 0 THEN 1 ELSE value

\* cart.map(...) of updateQuantity: the lines of the product take the new
\* quantity when it is positive and within the product's stock
UpdatedCart(cart, product, change) ==
  [i \in DOMAIN cart |->
     IF cart[i].productId = product.id
     THEN LET newQuantity == cart[i].quantity + change IN
          IF newQuantity <= 0 \/ newQuantity > product.stock THEN cart[i]
          ELSE [cart[i] EXCEPT !.quantity = newQuantity,
                               !.total = newQuantity * cart[i].price]
     ELSE cart[i]]

\* A click on the minus or the plus button of a cart line:
\* updateQuantity(item.productId, -1 or 1), which returns at once when the
\* list has no such product.
UpdateQuantity ==
  /\ billing.pc = "editing"
  /\ \E k \in 1..Len(billing.cart), change \in {0 - 1, 1} :
       LET idx == FindProductIndex(billing.productsData,
                                   billing.cart[k].productId)
       IN billing' = [billing EXCEPT !.cart =
            IF idx = 0 THEN billing.cart
            ELSE UpdatedCart(billing.cart, billing.productsData[idx], change)]
  /\ UNCHANGED <<creator, productsFile, salesFile, handler, responses, now,
                 faults, admin, adminOps, categoriesFile, remover, report>>

\* cart.map(...) of setQuantity: the lines of the product take the quantity
SetCart(cart, productId, quantity) ==
  [i \in DOMAIN cart |->
     IF cart[i].productId = productId
     THEN [cart[i] EXCEPT !.quantity = quantity,
                          !.total = quantity * cart[i].price]
     ELSE cart[i]]

\* SetQuantity without the comparison with the product's stock
SetQuantity_NoStockCheck ==
  /\ billing.pc = "editing"
  /\ \E k \in 1..Len(billing.cart), value \in QuantityInputs :
       LET productId == billing.cart[k].productId
           quantity  == ParsedQuantity(value)
           idx       == FindProductIndex(billing.productsData, productId)
       IN billing' = [billing EXCEPT !.cart =
            IF idx = 0 \/ quantity <= 0 THEN billing.cart
            ELSE SetCart(billing.cart, productId, quantity)]
  /\ UNCHANGED <<creator, productsFile, salesFile, handler, responses, now,
                 faults, admin, adminOps, categoriesFile, remover, report>>

\* A value typed into the quantity field of a cart line:
\* setQuantity(item.productId, parseInt(value) || 1), which returns at once
\* when the list has no such product, when the quantity is not positive or
\* when it is above the product's stock.
SetQuantity ==
  /\ billing.pc = "editing"
  /\ \E k \in 1..Len(billing.cart), value \in QuantityInputs :
       LET productId == billing.cart[k].productId
           quantity  == ParsedQuantity(value)
           idx       == FindProductIndex(billing.productsData, productId)
       IN billing' = [billing EXCEPT !.cart =
            IF \/ idx = 0 \/ quantity <= 0
               \/ quantity > billing.productsData[idx].stock
            THEN billing.cart
            ELSE SetCart(billing.cart, productId, quantity)]
  /\ UNCHANGED <<creator, productsFile, salesFile, handler, responses, now,
                 faults, admin, adminOps, categoriesFile, remover, report>>

\* A click on the bin of a cart line: removeFromCart(item.productId)
RemoveFromCart ==
  /\ billing.pc = "editing"
  /\ \E k \in 1..Len(billing.cart) :
       billing' = [billing EXCEPT !.cart =
         SelectSeq(billing.cart,
                   LAMBDA item : item.productId # billing.cart[k].productId)]
  /\ UNCHANGED <<creator, productsFile, salesFile, handler, responses, now,
                 faults, admin, adminOps, categoriesFile, remover, report>>

\* onSubmit with the percentages typed into the form: an empty cart is
\* refused on the page, otherwise the mutation is started.  The page submits
\* the one request whose handler is handler 1.
Submit ==
  /\ billing.pc = "editing"
  /\ billing.cart # <<>>
  /\ handler[1].pc = "idle" /\ ~Answered(1)
  /\ \E d \in DiscountPercents, t \in TaxPercents :
       billing' = [billing EXCEPT !.pc = "submitted",
                     !.discountPercent = d, !.taxPercent = t]
  /\ UNCHANGED <<creator, productsFile, salesFile, handler, responses, now, faults,
                 admin, adminOps, categoriesFile, remover, report>>

\* the request of the page reaches POST /api/sales
SendSale ==
  /\ billing.pc = "submitted"
  /\ StartSale(1, {SaleData(billing)})

\* onSuccess empties the cart and resets the form; onError only shows the
\* message
OnSettled ==
  /\ billing.pc = "submitted"
  /\ \E r \in 1..Len(responses) :
       /\ responses[r].handler = 1
       /\ billing' = IF responses[r].status = 201
                     THEN [billing EXCEPT !.pc = "editing", !.cart = <<>>,
                             !.discountPercent = 0, !.taxPercent = 0]
                     ELSE [billing EXCEPT !.pc = "editing"]
  /\ UNCHANGED <<creator, productsFile, salesFile, handler, responses, now, faults,
                 admin, adminOps, categoriesFile, remover, report>>

(* --------------------------- specifications ---------------------------- *)
Init ==
  /\ productsFile = InitProducts
  /\ salesFile = <<>>
  /\ handler = [h \in Handlers |-> IdleHandler]
  /\ responses = <<>>
  /\ now = 0
  /\ faults = 0
  /\ admin = IdleAdmin
  /\ adminOps = 0
  /\ categoriesFile = defaultCategories
  /\ billing = IdleBilling
  /\ report = IdleReport
  /\ remover = IdleRemover
  /\ creator = IdleCreator

NextSales ==
  \/ \E h \in Handlers : StartSale(h, RaceBodies)
  \/ \E h \in Handlers : ReadSales(h)
  \/ \E h \in Handlers : WriteProducts(h)
  \/ \E h \in Handlers : WriteSales(h)

\* concurrent sale commits, of at most one line each, on a catalog nobody
\* edits
SpecSales == Init /\ [][NextSales]_vars

\* one sale commit, of any cart, with product edits and deletions before,
\* during and after it
NextCatalog ==
  \/ StartSale(1, SaleBodies)
  \/ ReadSales(1)
  \/ WriteProducts(1)
  \/ WriteSales(1)
  \/ PutProduct(TargetIds, PutBodies)
  \/ PutProductWrite
  \/ DeleteProduct(TargetIds)
  \/ DeleteProductWrite

SpecCatalog == Init /\ [][NextCatalog]_vars

TypeOK ==
  /\ faults \in 0..MaxFaults
  /\ now \in Times
  /\ Len(responses) <= NumHandlers

\* the billing page with its one sale, and edits of the Laptop around it
InitBilling ==
  /\ productsFile = BillingProducts
  /\ salesFile = <<>>
  /\ handler = [h \in Handlers |-> IdleHandler]
  /\ responses = <<>>
  /\ now = 0
  /\ faults = 0
  /\ admin = IdleAdmin
  /\ adminOps = 0
  /\ categoriesFile = defaultCategories
  /\ billing = IdleBilling
  /\ report = IdleReport
  /\ remover = IdleRemover
  /\ creator = IdleCreator

NextBilling ==
  \/ LoadProducts
  \/ AddToCart
  \/ Submit
  \/ SendSale
  \/ ReadSales(1)
  \/ WriteProducts(1)
  \/ WriteSales(1)
  \/ OnSettled
  \/ ~Answered(1) /\ PutProduct({2}, BillingPutBodies)
  \/ PutProductWrite

SpecBilling == InitBilling /\ [][NextBilling]_vars

\* the edit that races the commit: the Laptop renamed and repriced
RacePutBody == CHOOSE b \in PutBodies : b.sku = "LP002"

\* one sale commit and edits of the Laptop, all with the same body
NextRace ==
  \/ StartSale(1, RaceBodies)
  \/ ReadSales(1)
  \/ WriteProducts(1)
  \/ WriteSales(1)
  \/ PutProduct({2}, {RacePutBody})
  \/ PutProductWrite

SpecRace == Init /\ [][NextRace]_vars

\* deletions of categories with edits and deletions of products
NextCategories ==
  \/ DeleteCategory
  \/ DeleteCategoryReadProducts
  \/ DeleteCategoryWrite
  \/ PutProduct({2}, PutBodies)
  \/ PutProductWrite
  \/ DeleteProduct(TargetIds)
  \/ DeleteProductWrite

SpecCategories == Init /\ [][NextCategories]_vars

(* ------------------------- auxiliary definitions ----------------------- *)
Quiescent == \A h \in Handlers : handler[h].pc = "idle"

Created == {r \in 1..Len(responses) : responses[r].status = 201}

\* quantity of product pid sold by a sale's line items, from line i on
RECURSIVE SoldQty(_, _, _)
SoldQty(items, pid, i) ==
  IF i > Len(items) THEN 0
  ELSE (IF items[i].productId = pid THEN items[i].quantity ELSE 0)
       + SoldQty(items, pid, i + 1)

\* quantity of product pid sold by the sales of a history, from sale k on
RECURSIVE SoldInHistory(_, _, _)
SoldInHistory(sales, pid, k) ==
  IF k > Len(sales) THEN 0
  ELSE SoldQty(sales[k].items, pid, 1) + SoldInHistory(sales, pid, k + 1)

StripProducts(ps) == [i \in DOMAIN ps |-> [ps[i] EXCEPT !.lastUpdated = 0]]
StripSale(s)      == [s EXCEPT !.createdAt = 0]
StripSales(ss)    == [i \in DOMAIN ss |-> StripSale(ss[i])]

\* One commit run alone, with no failing file operation, at time 0, on the
\* persisted state st: the state it leaves and the response it sends.
SeqCommit(st, body) ==
  LET v == ValidateItems(st.products, body.items, 1, 0, <<>>) IN
  IF v.error # NoError
  THEN [products |-> st.products, sales |-> st.sales, status |-> 400,
        error |-> v.error, sale |-> NoSale]
  ELSE LET newSale == BuildSale(st.sales, v, body, 0) IN
       [products |-> UpdateStock(st.products, body.items, 1, 0),
        sales |-> Append(st.sales, newSale), status |-> 201,
        error |-> NoError, sale |-> newSale]

\* Running the answered requests one after the other in the given order,
\* from the k-th on, yields the responses sent and the files as they are
\* (timestamps apart).
RECURSIVE ReplayMatches(_, _, _)
ReplayMatches(st, order, k) ==
  IF k > Len(order)
  THEN /\ st.products = StripProducts(productsFile)
       /\ st.sales = StripSales(salesFile)
  ELSE LET r   == responses[order[k]]
           out == SeqCommit(st, r.body)
       IN /\ out.status = r.status
          /\ out.error = r.error
          /\ out.sale = StripSale(r.sale)
          /\ ReplayMatches([products |-> out.products, sales |-> out.sales],
                           order, k + 1)

Perms(n) == {f \in [1..n -> 1..n] : \A i, j \in 1..n : i # j => f[i] # f[j]}

\* PUT /api/products/:id run alone, with no failing file operation, at
\* time 0, on the products given: the products it leaves
SeqPut(products, productId, b) ==
  LET idx == FindProductIndex(products, productId) IN
  IF \/ idx = 0
     \/ \E i \in 1..Len(products) :
          products[i].sku = b.sku /\ products[i].id # productId
  THEN products
  ELSE UpdatedProducts(products, idx, b, 0)

(* ------------------- histories the reports start from ------------------ *)
\* One commit run alone at time t, with no failing file operation, on the
\* persisted state st: the state it leaves.
CommitAt(st, body, t) ==
  LET v == ValidateItems(st.products, body.items, 1, 0, <<>>) IN
  IF v.error # NoError THEN st
  ELSE [products |-> UpdateStock(st.products, body.items, 1, t),
        sales |-> Append(st.sales, BuildSale(st.sales, v, body, t))]

\* the commits of a run, from the k-th on, one after the other
RECURSIVE RunCommits(_, _, _)
RunCommits(st, run, k) ==
  IF k > Len(run) THEN st
  ELSE RunCommits(CommitAt(st, run[k].body, run[k].at), run, k + 1)

\* charges of the commits behind a history: none, or those of Charges
HistoryCharges == {<<0, 0>>} \cup Charges

\* bodies of the commits behind a history: one line each, the charges ch
HistoryBodies(ch) ==
  {[items |-> <<line>>, discount |-> ch[1], tax |-> ch[2]] :
     line \in CartLines}

\* runs of at most MaxSales commits, all with the same charges, at times
\* that do not decrease
Runs ==
  UNION {
    {run \in UNION {[1..n -> [body : HistoryBodies(ch), at : Times]] :
                      n \in 0..MaxSales} :
       \A k \in 1..(Len(run) - 1) : run[k].at <= run[k + 1].at} :
    ch \in HistoryCharges}

\* the default catalog with the stock of every product set to InitStock
AnalyticsProducts ==
  [i \in 1..Len(defaultProducts) |->
     [defaultProducts[i] EXCEPT !.stock = InitStock]]

\* PUT /api/products/:id with the product's own fields but for the category
Recategorized(products, productId, categoryId) ==
  LET idx == FindProductIndex(products, productId) IN
  IF idx = 0 THEN products
  ELSE SeqPut(products, productId,
         [name |-> products[idx].name, sku |-> products[idx].sku,
          categoryId |-> categoryId, price |-> products[idx].price,
          stock |-> products[idx].stock,
          reorderPoint |-> products[idx].reorderPoint])

\* What the catalog may have become since the sales: nothing changed, the
\* T-Shirt moved to Electronics, the T-Shirt moved to a category that does
\* not exist, the Laptop deleted.
CatalogsAfter(products) ==
  { products,
    Recategorized(products, 3, 1),
    Recategorized(products, 3, Len(defaultCategories) + 1),
    WithoutProduct(products, 2) }

\* a history of sales of the Laptop and the T-Shirt, and the catalog after it
InitHistory ==
  /\ \E run \in Runs :
       LET st == RunCommits([products |-> AnalyticsProducts, sales |-> <<>>],
                            run, 1)
       IN /\ salesFile = st.sales
          /\ productsFile \in CatalogsAfter(st.products)
  /\ handler = [h \in Handlers |-> IdleHandler]
  /\ responses = <<>>
  /\ now = MaxTime
  /\ faults = 0
  /\ admin = IdleAdmin
  /\ adminOps = 0
  /\ categoriesFile = defaultCategories
  /\ billing = IdleBilling
  /\ report = IdleReport
  /\ remover = IdleRemover
  /\ creator = IdleCreator

\* a catalog of TopN + 1 products, all in Electronics
TopCatalog ==
  [k \in 1..(TopN + 1) |->
     [id |-> k, name |-> "Product " \o ToString(k),
      sku |-> "P" \o ToString(k), categoryId |-> 1, price |-> 1000,
      stock |-> InitStock, reorderPoint |-> 0, lastUpdated |-> 0]]

\* each product of the catalog sold once, one unit or the whole stock, and
\* then, or not, one more unit of the last product
TopRuns ==
  {[k \in 1..(TopN + 1 + again) |->
      [body |-> [items |-> <<[productId |-> IF k > TopN + 1 THEN TopN + 1
                                           ELSE k,
                              quantity |-> IF k > TopN + 1 THEN 1 ELSE q[k]]>>,
                 discount |-> 0, tax |-> 0],
       at |-> 0]] : q \in [1..(TopN + 1) -> {1, InitStock}], again \in {0, 1}}

\* a history that sold more products than the report lists
InitTop ==
  /\ \E run \in TopRuns :
       LET st == RunCommits([products |-> TopCatalog, sales |-> <<>>], run, 1)
       IN /\ salesFile = st.sales
          /\ productsFile = st.products
  /\ handler = [h \in Handlers |-> IdleHandler]
  /\ responses = <<>>
  /\ now = MaxTime
  /\ faults = 0
  /\ admin = IdleAdmin
  /\ adminOps = 0
  /\ categoriesFile = defaultCategories
  /\ billing = IdleBilling
  /\ report = IdleReport
  /\ remover = IdleRemover
  /\ creator = IdleCreator

\* the first request has any query string, the later ones repeat it
NextAnalytics ==
  \/ StartReport(IF report.status = 0 THEN Queries ELSE {report.query})
  \/ ReportReadProducts
  \/ ReportReadCategories

\* reports without bounds
NextTop ==
  \/ StartReport({NoQuery})
  \/ ReportReadProducts
  \/ ReportReadCategories

\* reports over the histories that sold more than TopN products
SpecTop == InitTop /\ [][NextTop]_vars

\* reports over the histories above, nothing else running
SpecAnalytics == InitHistory /\ [][NextAnalytics]_vars

(* -------------------------------- claims ------------------------------- *)

\* C1: the stock of every product is >= 0 after any sequence of sale
\* commits, whatever their carts (a cart may list a product on two lines).
C1_StockNeverNegative ==
  \A i \in 1..Len(productsFile) : productsFile[i].stock >= 0

\* C2: once N concurrent commits have all been answered (no file operation
\* having failed), the products, the sale history and the responses are
\* those of some sequential execution of the same N commits.
C2_CommitsSerializable ==
  (Quiescent /\ faults = 0) =>
    \E order \in Perms(Len(responses)) :
      ReplayMatches([products |-> StripProducts(InitProducts), sales |-> <<>>],
                    order, 1)

\* C3: two commits that request the same product, each within the initial
\* stock but together beyond it, are never both answered with a Sale (no
\* file operation having failed).
C3_AtMostOneWins ==
  faults = 0 => \A r1, r2 \in Created : \A i \in 1..Len(InitProducts) :
    LET pid == InitProducts[i].id
        q1  == SoldQty(responses[r1].sale.items, pid, 1)
        q2  == SoldQty(responses[r2].sale.items, pid, 1)
    IN (r1 # r2 /\ q1 > 0 /\ q2 > 0 /\ q1 <= InitStock /\ q2 <= InitStock)
         => q1 + q2 <= InitStock

\* C4: a commit's two writes take effect as one unit: whenever no commit is
\* in flight, the stock taken from each product since the start equals the
\* quantity the persisted sale history records for it.
C4_WritesAreOneUnit ==
  Quiescent =>
    \A i \in 1..Len(productsFile) :
      InitStock - productsFile[i].stock
        = SoldInHistory(salesFile, productsFile[i].id, 1)

\* C5: a commit whose cart has no line is refused and records no sale.
C5_EmptyCartRejected ==
  /\ \A r \in 1..Len(responses) :
       responses[r].body.items = <<>> => responses[r].status # 201
  /\ \A k \in 1..Len(salesFile) : salesFile[k].items # <<>>

\* C6: the step in which a commit is refused for a missing product or for
\* insufficient stock changes neither products.json nor sales.json.
C6_RejectionHasNoEffect ==
  [][(/\ Len(responses') = Len(responses) + 1
      /\ responses'[Len(responses')].status = 400)
       => (productsFile' = productsFile /\ salesFile' = salesFile)]_vars

\* a commit whose first line was valid has been refused at its second line,
\* and the files are as they were
C6_Witness ==
  \E r \in 1..Len(responses) :
    /\ responses[r].status = 400
    /\ Len(responses[r].body.items) = 2
    /\ responses[r].body.items[1].productId = 2
    /\ responses[r].body.items[1].quantity <= InitStock
    /\ responses[r].body.items[2].productId = 3
    /\ productsFile = InitProducts /\ salesFile = <<>>

SaleIsConsistent(sale) ==
  /\ \A i \in 1..Len(sale.items) :
       sale.items[i].total = sale.items[i].price * sale.items[i].quantity
  /\ sale.subtotal = SumTotals(sale.items, 1)

\* C7: in every committed sale each line's total is its captured price
\* times its quantity, and the subtotal is the sum of the line totals.
C7_SaleTotalsConsistent ==
  /\ \A k \in 1..Len(salesFile) : SaleIsConsistent(salesFile[k])
  /\ \A r \in Created : SaleIsConsistent(responses[r].sale)

\* a sale of two lines, one of them of quantity 2, is in the history
C7_Witness ==
  \E k \in 1..Len(salesFile) :
    /\ Len(salesFile[k].items) = 2
    /\ \E i \in 1..2 : salesFile[k].items[i].quantity = 2

\* C8: sale ids are unique and strictly increase in the order in which the
\* commits were answered (no file operation having failed).
C8_SaleIdsIncrease ==
  faults = 0 =>
    \A r1, r2 \in Created :
      r1 < r2 => responses[r1].sale.id < responses[r2].sale.id

\* C9: a sale that a commit has returned stays in the persisted history
\* (no file operation having failed).
C9_ReturnedSalesPersist ==
  faults = 0 =>
    \A r \in Created :
      \E k \in 1..Len(salesFile) : salesFile[k] = responses[r].sale

\* C10: the price, productName and sku captured in the line items of a
\* returned sale are those of its persisted record, whatever edits and
\* deletions of products followed.
C10_LineItemsAreSnapshots ==
  \A r \in Created : \A k \in 1..Len(salesFile) :
    salesFile[k].id = responses[r].sale.id =>
      /\ Len(salesFile[k].items) = Len(responses[r].sale.items)
      /\ \A i \in 1..Len(salesFile[k].items) :
           LET kept == salesFile[k].items[i]
               sold == responses[r].sale.items[i]
           IN /\ kept.price = sold.price
              /\ kept.productName = sold.productName
              /\ kept.sku = sold.sku

\* a returned sale of the Laptop is in the history while the Laptop has
\* another price and name, or is gone from the catalog
C10_Witness ==
  \E r \in Created : \E k \in 1..Len(salesFile) :
    /\ salesFile[k].id = responses[r].sale.id
    /\ Len(salesFile[k].items) >= 1
    /\ salesFile[k].items[1].productId = 2
    /\ \A i \in 1..Len(productsFile) :
         productsFile[i].id = 2 =>
           /\ productsFile[i].price # salesFile[k].items[1].price
           /\ productsFile[i].name # salesFile[k].items[1].productName

\* C11: a sale the billing page made with discountPercent d and taxPercent
\* t has discount = subtotal*d/100, tax = (subtotal - discount)*t/100 and
\* total = subtotal - discount + tax, on the sale's own subtotal, also when
\* the price of a product changed after the page priced the cart.
C11_ChargesFollowPercentages ==
  billing.pc = "submitted" =>
    \A r \in Created :
      LET sale == responses[r].sale IN
      /\ sale.discount * 100 = sale.subtotal * billing.discountPercent
      /\ sale.tax * 100 = (sale.subtotal - sale.discount) * billing.taxPercent
      /\ sale.total = (sale.subtotal - sale.discount) + sale.tax

\* every line names a product of the list
AllListed(products, items) ==
  \A i \in 1..Len(items) :
    \E p \in 1..Len(products) : products[p].id = items[i].productId

\* some line asks for more than the list has of its product
SomeShort(products, items) ==
  \E i \in 1..Len(items) : \E p \in 1..Len(products) :
    /\ products[p].id = items[i].productId
    /\ products[p].stock < items[i].quantity

\* C12: the commit checks stock against the products persisted when it
\* runs, not against the list the page priced the cart from: the handler
\* takes its products from products.json, and refuses the cart for
\* insufficient stock exactly when one of its lines exceeds the stock read
\* there, and accepts it otherwise.
C12_CheckUsesPersistedStock ==
  [][/\ (handler[1].pc = "idle" /\ handler'[1].pc = "readSales"
           /\ faults' = faults)
        => handler'[1].products = productsFile
     /\ (handler[1].pc = "readSales" /\ handler'[1].pc # "readSales"
           /\ AllListed(handler[1].products, handler[1].body.items))
        => IF SomeShort(handler[1].products, handler[1].body.items)
           THEN /\ Len(responses') = Len(responses) + 1
                /\ responses'[Len(responses')].status = 400
                /\ responses'[Len(responses')].error.kind
                     = "InsufficientStock"
           ELSE /\ handler'[1].pc = "writeProducts"
                /\ responses' = responses]_vars

\* the page listed enough stock for its cart and the commit was refused for
\* insufficient stock: the stock fell after the cart was built
C12_Witness ==
  /\ billing.cart # <<>>
  /\ AllListed(billing.productsData, billing.cart)
  /\ ~SomeShort(billing.productsData, billing.cart)
  /\ \E r \in 1..Len(responses) :
       /\ responses[r].handler = 1
       /\ responses[r].status = 400
       /\ responses[r].error.kind = "InsufficientStock"

\* the page lists less stock than its cart asks for and the commit was
\* accepted: the stock rose after the page last fetched the list
C12_StockRose ==
  /\ SomeShort(billing.productsData, billing.cart)
  /\ \E r \in Created : responses[r].handler = 1

\* C13: once a commit of a non-empty cart and a product update that
\* interleaved have both finished (no file operation having failed),
\* products.json is what running the two one after the other, in one of the
\* two orders, leaves.
C13_CommitAndEditSerialize ==
  (/\ Answered(1) /\ handler[1].pc = "idle"
   /\ responses[1].body.items # <<>>
   /\ adminOps = 1 /\ admin.pc = "idle"
   /\ faults = 0)
  => LET start == [products |-> StripProducts(InitProducts), sales |-> <<>>]
         body  == responses[1].body
         commitFirst ==
           SeqPut(SeqCommit(start, body).products, 2, RacePutBody)
         editFirst ==
           SeqCommit([start EXCEPT
                        !.products = SeqPut(@, 2, RacePutBody)],
                     body).products
     IN StripProducts(productsFile) \in {commitFirst, editFirst}

\* C14: a refusal for insufficient stock is distinct from the refusal for a
\* missing product, names the id of the offending product and carries the
\* requested and the available quantity.
C14_InsufficientStockIsDetailed ==
  \A r \in 1..Len(responses) :
    responses[r].error.kind = "InsufficientStock" =>
      /\ responses[r].error.productId
           \in {responses[r].body.items[i].productId :
                  i \in 1..Len(responses[r].body.items)}
      /\ {"requested", "available"} \subseteq DOMAIN responses[r].error

\* the answer of the report that has just been given
Reported == report.pc = "idle" /\ report.status = 200

\* sum of f over the finite set S of indices
RECURSIVE SumOver(_, _)
SumOver(S, f) ==
  IF S = {} THEN 0
  ELSE LET k == CHOOSE x \in S : TRUE IN f[k] + SumOver(S \ {k}, f)

\* indices of the sales a report with the query q covers
Covered(sales, q) ==
  IF q.startDate # NoDate /\ q.endDate # NoDate
  THEN {k \in 1..Len(sales) : /\ q.startDate <= sales[k].createdAt
                               /\ sales[k].createdAt <= q.endDate}
  ELSE 1..Len(sales)

\* C15: a report counts exactly the sales with startDate <= createdAt <=
\* endDate when both bounds are given, and every sale when none is:
\* totalTransactions is their number and totalSales the sum of their
\* totals.  The sales are those of sales.json when no read failed.
C15_ReportCoversInclusiveRange ==
  Reported =>
    LET in == Covered(report.sales, report.query) IN
    /\ faults = 0 => report.sales = salesFile
    /\ report.result.totalTransactions = Cardinality(in)
    /\ report.result.totalSales
         = SumOver(in, [k \in in |-> report.sales[k].total])

\* a report whose bounds are both the time of one sale counts that sale and
\* leaves out an earlier one
C15_Witness ==
  /\ Reported /\ faults = 0
  /\ report.query.startDate # NoDate
  /\ report.query.startDate = report.query.endDate
  /\ \E k \in 1..Len(salesFile) :
       salesFile[k].createdAt = report.query.endDate
  /\ \E k \in 1..Len(salesFile) :
       salesFile[k].createdAt < report.query.startDate
  /\ report.result.totalTransactions = 1
  /\ report.result.totalSales > 0

\* name of the category the product with the id belongs to in the catalog
\* given, "" when the product or its category is not there
CurrentCategory(products, categories, productId) ==
  IF \E p \in 1..Len(products) : \E c \in 1..Len(categories) :
       products[p].id = productId /\ categories[c].id = products[p].categoryId
  THEN LET p == CHOOSE p \in 1..Len(products) : products[p].id = productId
           c == CHOOSE c \in 1..Len(categories) :
                  categories[c].id = products[p].categoryId
       IN categories[c].name
  ELSE ""

\* the line items of the sales a report covers
CoveredItems == AllItems(FilterSales(report.sales, report.query), 1)

\* indices of the covered items whose product is now in the category named
ItemsIn(name) ==
  {i \in 1..Len(CoveredItems) :
     CurrentCategory(report.products, report.categories,
                     CoveredItems[i].productId) = name}

\* C16: salesByCategory has one key per category name that the product of
\* some covered line item belongs to in the catalog the report read, with
\* the sum of the totals of those items; the items whose product, or whose
\* product's category, is not in that catalog count nowhere, and the report
\* is answered all the same.  The catalog is the persisted one when no
\* read failed.
C16_RevenueFollowsCurrentCategory ==
  Reported =>
    LET byCategory == report.result.salesByCategory
        names == {report.categories[c].name :
                    c \in 1..Len(report.categories)}
    IN /\ faults = 0 => /\ report.products = productsFile
                        /\ report.categories = categoriesFile
       /\ DOMAIN byCategory = {n \in names : ItemsIn(n) # {}}
       /\ \A n \in DOMAIN byCategory :
            byCategory[n] = SumOver(ItemsIn(n),
                              [i \in ItemsIn(n) |-> CoveredItems[i].total])

\* the T-Shirt was sold, then moved to Electronics: the report puts its
\* revenue under Electronics and has no Clothing
C16_Witness ==
  /\ Reported /\ faults = 0
  /\ \E i \in 1..Len(CoveredItems) : CoveredItems[i].productId = 3
  /\ \E p \in 1..Len(productsFile) :
       productsFile[p].id = 3 /\ productsFile[p].categoryId = 1
  /\ DOMAIN report.result.salesByCategory = {"Electronics"}
  /\ report.result.salesByCategory["Electronics"]
       >= defaultProducts[3].price

\* the Laptop was sold, then deleted: the report is answered and counts its
\* line items under no category
C16_DeletedProductSkipped ==
  /\ Reported /\ faults = 0
  /\ \E i \in 1..Len(CoveredItems) : CoveredItems[i].productId = 2
  /\ \A p \in 1..Len(productsFile) : productsFile[p].id # 2
  /\ \A i \in 1..Len(CoveredItems) : CoveredItems[i].productId = 2
  /\ report.result.salesByCategory = <<>>
  /\ report.result.totalSales > 0

\* indices of the covered items that name the product
ItemsOf(productId) ==
  {i \in 1..Len(CoveredItems) : CoveredItems[i].productId = productId}

\* quantity of the product over the covered items
QuantityOf(productId) ==
  SumOver(ItemsOf(productId),
          [i \in ItemsOf(productId) |-> CoveredItems[i].quantity])

\* C17: topProducts lists distinct products of the covered line items, all
\* of them when they are at most TopN and TopN of them otherwise, each with
\* the sums of the quantities and of the totals of its items, in order of
\* quantity descending; no product left out has a greater quantity than
\* one listed.
C17_TopProductsRanked ==
  Reported =>
    LET top  == report.result.topProducts
        sold == {CoveredItems[i].productId : i \in 1..Len(CoveredItems)}
        listed == {top[k].productId : k \in 1..Len(top)}
    IN /\ Len(top) = (IF Cardinality(sold) < TopN THEN Cardinality(sold)
                       ELSE TopN)
       /\ listed \subseteq sold
       /\ Cardinality(listed) = Len(top)
       /\ \A k \in 1..Len(top) :
            /\ top[k].quantity = QuantityOf(top[k].productId)
            /\ top[k].total =
                 SumOver(ItemsOf(top[k].productId),
                         [i \in ItemsOf(top[k].productId) |->
                            CoveredItems[i].total])
       /\ \A k \in 1..(Len(top) - 1) : top[k].quantity >= top[k + 1].quantity
       /\ \A x \in sold \ listed : \A k \in 1..Len(top) :
            QuantityOf(x) <= top[k].quantity

\* more than TopN products were sold in unequal quantities: the report
\* lists TopN of them and leaves out one of the least sold
C17_Witness ==
  /\ Reported /\ faults = 0
  /\ Cardinality({CoveredItems[i].productId : i \in 1..Len(CoveredItems)})
       > TopN
  /\ Len(report.result.topProducts) = TopN
  /\ report.result.topProducts[1].quantity
       > report.result.topProducts[TopN].quantity

\* a product sold by two sales is listed once with the sum of the two
\* quantities
C17_TwoSalesOneEntry ==
  /\ Reported /\ faults = 0
  /\ \E k \in 1..Len(report.result.topProducts) :
       /\ Cardinality(ItemsOf(report.result.topProducts[k].productId)) = 2
       /\ report.result.topProducts[k].quantity = 2

\* C18: no step of a report changes products.json, categories.json or
\* sales.json; a report is always answered with a result (status 200);
\* no read having failed, the result is the one function of the persisted
\* history and catalog and of the query, and a second call with the same
\* bounds is answered with the result of the first; over an empty history
\* the result is totalSales 0, totalTransactions 0 and nothing in
\* salesByCategory and topProducts.
C18_ReportIsPureRead ==
  [][/\ productsFile' = productsFile
     /\ categoriesFile' = categoriesFile
     /\ salesFile' = salesFile
     /\ report'.status \in {0, 200}
     /\ (report.pc = "readCategories" /\ report'.pc = "idle")
          => /\ report'.status = 200
             /\ faults' = 0 =>
                  report'.result = Aggregate(salesFile, productsFile,
                                             categoriesFile, report.query)
             /\ (faults' = 0 /\ report.status = 200) =>
                  report'.result = report.result
             /\ report.sales = <<>> => report'.result = NoResult]_vars

\* a report with bounds over a history of two sales was answered, with one
\* sale covered and one left out, and the history is as it was
C18_Witness ==
  /\ Reported /\ faults = 0
  /\ report.query # NoQuery
  /\ Len(salesFile) = 2
  /\ report.sales = salesFile
  /\ report.result.totalTransactions = 1

\* a report over the empty history was answered with zeros
C18_EmptyHistory ==
  /\ Reported /\ faults = 0
  /\ salesFile = <<>>
  /\ report.result = NoResult

\* every covered line item has its product, and the product its category,
\* in the catalog the report read
AllResolve ==
  \A i \in 1..Len(CoveredItems) :
    CurrentCategory(report.products, report.categories,
                    CoveredItems[i].productId) # ""

\* sum of the values of salesByCategory
CategoryTotal ==
  SumOver(DOMAIN report.result.salesByCategory, report.result.salesByCategory)

C19_ScenarioD ==
  /\ Reported /\ faults = 0 /\ report.query = NoQuery /\ AllResolve
  /\ Len(report.sales) = 2
  /\ report.result.salesByCategory
       = ("Electronics" :> report.sales[1].total)
           @@ ("Clothing" :> report.sales[2].total)
  /\ report.result.totalSales = CategoryTotal
  /\ report.result.totalTransactions = 2

\* ids of the categories in a list
CategoryIdsOf(categories) ==
  {categories[c].id : c \in 1..Len(categories)}

\* C20: a category leaves categories.json only when no product of
\* products.json has its id as categoryId (no file operation having
\* failed), and the step that refuses a deletion with 400 leaves
\* categories.json as it was.
C20_ReferencedCategoryStays ==
  [][/\ faults' = 0 =>
          \A c \in CategoryIdsOf(categoriesFile)
                    \ CategoryIdsOf(categoriesFile') :
            \A p \in 1..Len(productsFile) : productsFile[p].categoryId # c
     /\ (remover.pc = "readProducts" /\ remover'.status = 400
          /\ remover'.pc = "idle")
          => categoriesFile' = categoriesFile]_vars

\* the category routes on their own: create, update and delete
NextNames ==
  \/ CreateCategory
  \/ CreateCategoryWrite
  \/ UpdateCategory
  \/ UpdateCategoryWrite
  \/ DeleteCategory
  \/ DeleteCategoryReadProducts
  \/ DeleteCategoryWrite

SpecNames == Init /\ [][NextNames]_vars

\* C21: no two categories of categories.json have names that are equal
\* ignoring case.
C21_CategoryNamesUnique ==
  \A i, j \in 1..Len(categoriesFile) :
    i # j => toLowerCase(categoriesFile[i].name)
               # toLowerCase(categoriesFile[j].name)

\* the product routes: a POST handler next to a PUT or DELETE handler
NextProducts ==
  \/ CreateProduct(PostBodies)
  \/ CreateProductWrite
  \/ PutProduct(TargetIds, PutBodies)
  \/ PutProductWrite
  \/ DeleteProduct(TargetIds)
  \/ DeleteProductWrite

SpecProducts == Init /\ [][NextProducts]_vars

\* no two products of the array have the same sku
UniqueSkus(products) ==
  \A i, j \in 1..Len(products) : i # j => products[i].sku # products[j].sku

\* C22: no two products of products.json have the same sku.  A POST whose
\* sku a product of the file it read has is answered 400, a PUT goes on to
\* write only an array without a repeated sku, and neither step changes
\* products.json.
C22_SkusUnique ==
  /\ UniqueSkus(productsFile)
  /\ [][ /\ UniqueSkus(productsFile')
         /\ ( /\ creator.pc = "idle" /\ creator' # creator
              /\ faults' = faults
              /\ SkuTaken(productsFile, creator'.body.sku) )
            => creator'.status = 400 /\ creator'.pc = "idle"
               /\ productsFile' = productsFile
         /\ (admin.pc = "idle" /\ adminOps' # adminOps)
            => /\ productsFile' = productsFile
               /\ admin'.pc = "putWrite" => UniqueSkus(admin'.products) ]_vars

\* a POST under the Laptop's sku was refused after an earlier POST had
\* added the T-Shirt
C22_Witness ==
  /\ creator.pc = "idle" /\ creator.status = 400
  /\ creator.body.sku = "LP001"
  /\ creator.products = productsFile
  /\ Len(productsFile) = 3

\* C23: every product of products.json has the categoryId of a category
\* of categories.json.
C23_CategoriesExist ==
  \A i \in 1..Len(productsFile) :
    \E c \in 1..Len(categoriesFile) :
      categoriesFile[c].id = productsFile[i].categoryId

\* discount and tax amounts a POST /api/sales body may carry: none, those
\* of Scenario A, and amounts above any subtotal a cart can reach
ChargeAmounts == {<<0, 0>>, <<300, 135>>, <<100000000, 0>>, <<0, 100000000>>}

\* bodies of a non-empty cart with those amounts
ChargeBodies ==
  {[items |-> c, discount |-> ch[1], tax |-> ch[2]] :
     c \in Carts \ {<<>>}, ch \in ChargeAmounts}

\* one commit whose body carries any charges
NextCharges ==
  \/ StartSale(1, ChargeBodies)
  \/ ReadSales(1)
  \/ WriteProducts(1)
  \/ WriteSales(1)

SpecCharges == Init /\ [][NextCharges]_vars

\* C24: every recorded sale has 0 <= discount <= subtotal,
\* 0 <= tax <= subtotal - discount and total >= 0.
C24_ChargesWithinSubtotal ==
  \A k \in 1..Len(salesFile) :
    LET sale == salesFile[k] IN
    /\ 0 <= sale.discount /\ sale.discount <= sale.subtotal
    /\ 0 <= sale.tax /\ sale.tax <= sale.subtotal - sale.discount
    /\ sale.total >= 0

\* histories of at most one sale
ShortRuns == {run \in Runs : Len(run) <= 1}

\* the state one commit finds: a short history and the catalog after it
InitAlone ==
  /\ \E run \in ShortRuns :
       LET st == RunCommits([products |-> AnalyticsProducts, sales |-> <<>>],
                            run, 1)
       IN /\ salesFile = st.sales
          /\ productsFile \in CatalogsAfter(st.products)
  /\ handler = [h \in Handlers |-> IdleHandler]
  /\ responses = <<>>
  /\ now = MaxTime
  /\ faults = 0
  /\ admin = IdleAdmin
  /\ adminOps = 0
  /\ categoriesFile = defaultCategories
  /\ billing = IdleBilling
  /\ report = IdleReport
  /\ remover = IdleRemover
  /\ creator = IdleCreator

\* one commit with no other request next to it
NextAlone ==
  \/ StartSale(1, SaleBodies)
  \/ ReadSales(1)
  \/ WriteProducts(1)
  \/ WriteSales(1)

SpecAlone == InitAlone /\ [][NextAlone]_vars

\* the product after the cart's lines were taken from its stock at time t
AfterSale(product, items, t) ==
  IF SoldQty(items, product.id, 1) = 0 THEN product
  ELSE [product EXCEPT !.stock = @ - SoldQty(items, product.id, 1),
                       !.lastUpdated = t]

\* C25: in a commit that runs alone and whose file operations succeed,
\* products.json changes once, each product named in the cart losing the
\* summed quantity of its lines and taking the commit's time as lastUpdated
\* with nothing else changed; sales.json changes once, by one appended sale
\* whose items follow the cart's lines; categories.json does not change.
C25_CommitChangesOnlyItsLines ==
  [][ faults' = 0 =>
      LET body == handler[1].body IN
      /\ categoriesFile' = categoriesFile
      /\ productsFile' # productsFile =>
           /\ handler[1].pc = "writeProducts"
           /\ salesFile' = salesFile
           /\ Len(productsFile') = Len(productsFile)
           /\ \A i \in 1..Len(productsFile) :
                productsFile'[i] = AfterSale(productsFile[i], body.items, now)
      /\ salesFile' # salesFile =>
           /\ handler[1].pc = "writeSales"
           /\ productsFile' = productsFile
           /\ Len(salesFile') = Len(salesFile) + 1
           /\ SubSeq(salesFile', 1, Len(salesFile)) = salesFile
           /\ LET sale == salesFile'[Len(salesFile')] IN
              /\ Len(sale.items) = Len(body.items)
              /\ \A i \in 1..Len(body.items) :
                   /\ sale.items[i].productId = body.items[i].productId
                   /\ sale.items[i].quantity = body.items[i].quantity
      /\ Len(responses') > Len(responses)
         /\ responses'[Len(responses')].status = 201
         => salesFile' # salesFile ]_vars

\* a commit of two lines of the same product succeeded on top of an
\* earlier sale, and a product it does not name was never touched
C25_Witness ==
  /\ faults = 0
  /\ Len(salesFile) = 2
  /\ \E r \in Created :
       /\ Len(responses[r].body.items) = 2
       /\ responses[r].body.items[1].productId
            = responses[r].body.items[2].productId
       /\ \E i \in 1..Len(productsFile) :
            /\ SoldQty(responses[r].body.items, productsFile[i].id, 1) = 0
            /\ productsFile[i].lastUpdated = 0

\* C26: a failed read gives the handler an empty array and the commit goes
\* on.  A commit of a non-empty cart that read no products is answered 400
\* with product-not-found for its first line and changes no file; a commit
\* that succeeded although a file operation failed (which can only be its
\* read of sales.json) carries sale id 1 and leaves a history holding that
\* sale alone.
C26_FailedReadIsEmpty ==
  /\ [](\A r \in Created :
          (responses[r].body.items # <<>> /\ faults >= 1) =>
             /\ responses[r].sale.id = 1
             /\ salesFile = <<responses[r].sale>>)
  /\ [][ /\ ( /\ handler[1].pc = "idle" /\ handler'[1].pc = "readSales"
              /\ faults' # faults )
            => handler'[1].products = <<>>
         /\ ( /\ handler[1].pc = "readSales" /\ handler'[1].pc # "readSales"
              /\ handler[1].products = <<>>
              /\ handler[1].body.items # <<>> )
            => /\ Len(responses') = Len(responses) + 1
               /\ responses'[Len(responses')].status = 400
               /\ responses'[Len(responses')].error.kind = "ProductNotFound"
               /\ responses'[Len(responses')].error.productId
                    = handler[1].body.items[1].productId
               /\ productsFile' = productsFile /\ salesFile' = salesFile
     ]_vars

\* a commit succeeded after its read of sales.json had failed, and the
\* stock shows that a sale had been recorded before it
C26_Witness ==
  /\ faults = 1
  /\ \E r \in Created :
       /\ responses[r].body.items # <<>>
       /\ salesFile = <<responses[r].sale>>
       /\ \E i \in 1..Len(productsFile) :
            productsFile[i].stock
              + SoldQty(responses[r].body.items, productsFile[i].id, 1)
              < InitStock

\* a commit was refused for a missing product after its read of
\* products.json had failed
C26_Refused ==
  /\ faults = 1
  /\ \E r \in 1..Len(responses) :
       /\ responses[r].status = 400
       /\ responses[r].error.kind = "ProductNotFound"
       /\ \E i \in 1..Len(productsFile) :
            productsFile[i].id = responses[r].error.productId

\* reports asked with one bound only; a later request repeats the query
NextOneBound ==
  \/ StartReport(IF report.status = 0 THEN OneSidedQueries
                 ELSE {report.query})
  \/ ReportReadProducts
  \/ ReportReadCategories

SpecOneBound == InitHistory /\ [][NextOneBound]_vars

\* C27: a report asked with exactly one of startDate and endDate covers
\* every sale it read, and is the report the same data gives with no bound.
C27_OneBoundIsNoBound ==
  (/\ Reported
   /\ (report.query.startDate = NoDate) # (report.query.endDate = NoDate))
  => /\ report.result.totalTransactions = Len(report.sales)
     /\ report.result.totalSales = SumSaleTotals(report.sales, 1)
     /\ faults = 0 =>
          report.result = Aggregate(salesFile, productsFile, categoriesFile,
                                    NoQuery)

\* a report asked with a start date only counts a sale made before that
\* date
C27_Witness ==
  /\ Reported /\ faults = 0
  /\ report.query.startDate # NoDate /\ report.query.endDate = NoDate
  /\ report.result.totalTransactions >= 1
  /\ \E k \in 1..Len(salesFile) :
       salesFile[k].createdAt < report.query.startDate

\* the products of TopCatalog in descending order of id, and that order
\* started from the middle
TieOrders ==
  { [k \in 1..(TopN + 1) |-> TopN + 2 - k],
    [k \in 1..(TopN + 1) |-> ((TopN + 1 + (TopN \div 2) - k) % (TopN + 1)) + 1] }

\* each product of the catalog sold once, one unit or the whole stock, in
\* one of those orders
TieRuns ==
  {[k \in 1..(TopN + 1) |->
      [body |-> [items |-> <<[productId |-> order[k], quantity |-> q[k]]>>,
                 discount |-> 0, tax |-> 0],
       at |-> 0]] : q \in [1..(TopN + 1) -> {1, InitStock}], order \in TieOrders}

\* a history in which the products first appear against the order of
\* their ids
InitTies ==
  /\ \E run \in TieRuns :
       LET st == RunCommits([products |-> TopCatalog, sales |-> <<>>], run, 1)
       IN /\ salesFile = st.sales
          /\ productsFile = st.products
  /\ handler = [h \in Handlers |-> IdleHandler]
  /\ responses = <<>>
  /\ now = MaxTime
  /\ faults = 0
  /\ admin = IdleAdmin
  /\ adminOps = 0
  /\ categoriesFile = defaultCategories
  /\ billing = IdleBilling
  /\ report = IdleReport
  /\ remover = IdleRemover
  /\ creator = IdleCreator

\* reports over those histories
SpecTies == InitTies /\ [][NextTop]_vars

\* C28: in topProducts, of two listed products with the same quantity the
\* one of the smaller id comes first, and a product left out has a greater
\* id than every listed product of its quantity, whatever the order of the
\* products in the history.
C28_TiesByAscendingId ==
  Reported =>
    LET top    == report.result.topProducts
        sold   == {CoveredItems[i].productId : i \in 1..Len(CoveredItems)}
        listed == {top[k].productId : k \in 1..Len(top)}
    IN /\ \A k \in 1..Len(top), l \in 1..Len(top) :
            (k < l /\ top[k].quantity = top[l].quantity)
              => top[k].productId < top[l].productId
       /\ \A x \in sold \ listed : \A k \in 1..Len(top) :
            QuantityOf(x) = top[k].quantity => top[k].productId < x

\* the history starts with the product of the greatest id and every
\* product sold the same quantity: the report lists the products 1 to TopN
\* in that order
C28_Witness ==
  /\ Reported /\ faults = 0
  /\ salesFile # <<>>
  /\ salesFile[1].items[1].productId = TopN + 1
  /\ Len(report.result.topProducts) = TopN
  /\ \A k \in 1..TopN :
       /\ report.result.topProducts[k].productId = k
       /\ report.result.topProducts[k].quantity = QuantityOf(TopN + 1)

\* products deleted and created after a short history, and reports
NextReuse ==
  \/ DeleteProduct(TargetIds)
  \/ DeleteProductWrite
  \/ CreateProduct(ReuseBodies)
  \/ CreateProductWrite
  \/ StartReport({NoQuery})
  \/ ReportReadProducts
  \/ ReportReadCategories

SpecReuse == InitAlone /\ [][NextReuse]_vars

\* C29: the product a POST pushes has the id after the greatest id of the
\* products it read (1 when it read none), which is the id of a deleted
\* product when that one had the greatest id; a report then counts every
\* covered line item under the category of the product that has the
\* item's productId now, also when that is not the product that was sold.
C29_IdsReusedAfterDelete ==
  /\ [][ (creator.pc = "idle" /\ creator'.pc = "createWrite") =>
         LET ps  == creator'.products
             new == ps[Len(ps)]
         IN /\ \A i \in 1..(Len(ps) - 1) : ps[i].id < new.id
            /\ \/ Len(ps) = 1 /\ new.id = 1
               \/ \E i \in 1..(Len(ps) - 1) : ps[i].id + 1 = new.id ]_vars
  /\ []( (Reported /\ faults = 0) =>
         /\ \A i \in 1..Len(CoveredItems) :
              LET name == CurrentCategory(report.products, report.categories,
                                          CoveredItems[i].productId)
              IN name # "" => name \in DOMAIN report.result.salesByCategory
         /\ \A name \in DOMAIN report.result.salesByCategory :
              report.result.salesByCategory[name]
                = SumOver(ItemsIn(name),
                          [i \in ItemsIn(name) |-> CoveredItems[i].total]) )

\* the T-Shirt was sold and deleted, the Novel was created under its id 3,
\* and the report counts the T-Shirt's line under Books
C29_Witness ==
  /\ Reported /\ faults = 0
  /\ creator.status = 201 /\ creator.body.name = "Novel"
  /\ Len(CoveredItems) = 1
  /\ CoveredItems[1].productId = 3
  /\ CoveredItems[1].productName = "T-Shirt"
  /\ \E p \in 1..Len(productsFile) :
       /\ productsFile[p].id = 3 /\ productsFile[p].name = "Novel"
       /\ report.products = productsFile
  /\ DOMAIN report.result.salesByCategory = {"Books"}
  /\ report.result.salesByCategory["Books"] = CoveredItems[1].total

\* the billing page with an empty search box, before anything is submitted
NextCart ==
  \/ LoadProducts
  \/ AddToCartOf(billing.productsData)
  \/ UpdateQuantity
  \/ SetQuantity
  \/ RemoveFromCart

SpecCart == InitAlone /\ [][NextCart]_vars

\* no product on two lines, every line of a listed product with a quantity
\* from 1 to its listed stock, and total = price * quantity
CartOK(cart, productsData) ==
  /\ \A i, j \in 1..Len(cart) : i # j => cart[i].productId # cart[j].productId
  /\ \A i \in 1..Len(cart) :
       /\ \E p \in 1..Len(productsData) :
            /\ productsData[p].id = cart[i].productId
            /\ 1 <= cart[i].quantity
            /\ cart[i].quantity <= productsData[p].stock
       /\ cart[i].total = cart[i].price * cart[i].quantity

\* C30: while the product list stays the same, a cart that has each product
\* on at most one line, every quantity from 1 to the listed stock and every
\* total = price * quantity still has all that after addToCart,
\* updateQuantity, setQuantity or removeFromCart, and each of them adds one
\* line of one unit, removes one line, changes quantity and total of one
\* line, or leaves the cart as it was.
C30_CartStaysWithinStock ==
  [][ ( /\ billing'.productsData = billing.productsData
        /\ CartOK(billing.cart, billing.productsData) )
      => LET cart == billing.cart
             new  == billing'.cart
         IN /\ CartOK(new, billing'.productsData)
            /\ \/ new = cart
               \/ /\ Len(new) = Len(cart) + 1
                  /\ SubSeq(new, 1, Len(cart)) = cart
                  /\ new[Len(new)].quantity = 1
               \/ /\ Len(new) = Len(cart) - 1
                  /\ \E k \in 1..Len(cart) :
                       new = SubSeq(cart, 1, k - 1)
                               \o SubSeq(cart, k + 1, Len(cart))
               \/ /\ Len(new) = Len(cart)
                  /\ \E k \in 1..Len(cart) :
                       /\ \A i \in 1..Len(cart) : i # k => new[i] = cart[i]
                       /\ new[k] = [cart[k] EXCEPT
                                      !.quantity = new[k].quantity,
                                      !.total = new[k].total] ]_vars

\* the list is loaded and the cart has two lines, one of them at the listed
\* stock of more than one unit, the other at one unit of a product that has
\* more in stock
C30_Witness ==
  /\ billing.productsData # <<>>
  /\ CartOK(billing.cart, billing.productsData)
  /\ Len(billing.cart) = 2
  /\ \E p \in 1..Len(billing.productsData) :
       /\ billing.productsData[p].id = billing.cart[1].productId
       /\ billing.cart[1].quantity = billing.productsData[p].stock
       /\ billing.cart[1].quantity > 1
  /\ \E p \in 1..Len(billing.productsData) :
       /\ billing.productsData[p].id = billing.cart[2].productId
       /\ billing.cart[2].quantity = 1
       /\ billing.productsData[p].stock > 1

====
